---------------------------- MODULE Spec2Model ----------------------------
(***************************************************************************)
(* EPG backend automation: the XMLTV stream parser (channel index,         *)
(* display-name accumulator, programme capture), the channel matcher, the  *)
(* record builder of the ingestion coordinator and the multi-source run.   *)
(*                                                                         *)
(* The repository holds several revisions of the same pipeline.  The       *)
(* variable `variant` names the revision a behaviour follows:              *)
(*   "mx" : src/scripts/mx-scrape-and-match.mjs                            *)
(*   "p3" : src/unnamed/part_003  (parseEpgStreamAndIngest)                *)
(*   "p4" : src/unnamed/part_004  (parseAllEpg / parseOneEpg / findMatch)  *)
(*   "p5" : src/unnamed/part_005  (parseManyEpgStreams / findMatch)        *)
(*                                                                         *)
(* Strings are modelled as sequences of lexemes: a lexeme is a maximal     *)
(* run of letters and digits (a word) or one punctuation mark.  Words are  *)
(* separated by one blank; "." is glued on both sides, "(" to what         *)
(* follows, ")" to what precedes.  The empty string is <<>>.  An acute     *)
(* accent is written after its letter: "Me'xico".                          *)
(***************************************************************************)
EXTENDS Integers, Sequences, FiniteSets, TLC

VARIABLES
    variant,     \* the revision of the pipeline this behaviour follows
    phase,       \* which machine is running and where it is
    \* ---- channel index (parse*Epg closures) ----
    keepAll,     \* mx/p4: the current source is region-scoped (/_MX/ in its url)
    nsrc,        \* number of sources opened so far
    nch,         \* number of <channel> elements opened so far
    cur,         \* the channel element being read: NoCur or [id, namesRaw]
    heap,        \* entry objects, by reference (a reference is an index of heap)
    channels,    \* agg.channels / keptEntries / globalIdTo / entriesById: <<id, ref>> pairs
    nameMap,     \* nameMap: <<key, ref>> pairs in insertion order
    seen,        \* p5: programmesSeen of the current source
    requireProgs,\* p5: EPG_REQUIRE_PROGS
    \* ---- matcher and record builder ----
    cand,        \* the candidate the matcher was last run on
    res,         \* its Match Result
    m3u,         \* mx: lookups built from the curated playlist
    manual,      \* mx: the manual mapping
    rec,         \* mx: the Ingest Record built for cand
    \* ---- display-name accumulator ----
    inDisp,        \* inside a <display-name> of the current channel
    dispChunks,    \* the chunks kept so far; a text is a sequence of character runs
    dispLen,       \* their accumulated length
    dispTruncated, \* the cap was hit
    dispNames,     \* cur.namesRaw, as texts
    \* ---- programme capture ----
    now,         \* Date.now() when the parse began, in hours
    ingest,      \* mx: INGEST_PROGRAMS
    last,        \* the last event delivered to the programme handlers
    prog,        \* the programme being read: <<>> or <<record>>
    programs,    \* the programme records emitted so far (agg.programs, batch, progBatch)
    dropped,     \* Len(programs) at each programme read with an unparseable timestamp
    \* ---- multi-source run ----
    pc,          \* where the run is
    urls,        \* how many EPG urls are configured
    srcLog,      \* the outcome of each source attempted so far
    \* ---- programme free text ----
    field,       \* the stored value of one free-text field of the programme (prog.title)
    textBuf,     \* the text buffered for the open child element (buf, textBuf)
    inTag,       \* inside a child element of that field (inTag, curTag, inTitle)
    nField,      \* elements of the field closed so far
    nTxt,        \* text events delivered to the open element
    \* ---- programme batches ----
    recs,        \* programme records emitted by the parser so far
    arrays,      \* the array objects: [lo, n]
    batch,       \* the array the accumulator variable refers to
    flights,     \* the sink writes in flight
    nfid,        \* sink writes started so far
    handed,      \* the size of each batch sent to the sink, in order
    sink,        \* the batches the sink has accepted
    bpc,         \* where the parse and the persistence are
    savePos,     \* mx: the index i of the loop of savePrograms
    sb,          \* part_004: a database client is configured
    \* ---- probe pool ----
    scraped,     \* the scraped channels with their stream urls
    poolItems,   \* allUrls: the items of the pool
    okOf,        \* what the probe of each url answers
    limit,       \* the concurrency of the pool
    taken,       \* i: how many items have been taken
    inflight,    \* the items whose work function is in flight
    results,     \* results[idx]: <<>> until the item settles
    doneOrder,   \* the items in the order their probes completed
    workingSet,  \* the urls found working
    persisted,   \* stream_url of the records handed to saveStreams
    ppc,         \* where the pool is
    \* ---- master playlist ----
    masterText,  \* the variant directives of the master playlist read
    bestUrl,     \* <<>> or <<what bestFromMaster returned>>
    \* ---- stream probe ----
    net,         \* what the network answers for the candidate and for a variant
    reqs,        \* the requests the probe has sent, in order
    timers,      \* the deadlines the probe has started, in order
    prc,         \* where the probe is
    pres,        \* <<>> or <<what probePlaylist / probeM3U8 returned>>
    reported,    \* <<>> or <<the record the caller keeps for the candidate>>
    \* ---- persistence ----
    saver,       \* the save function that runs
    schema,      \* the table: its unique constraint and optional columns
    store,       \* the rows of the table, as written slices
    nrows,       \* rows.length of each run
    srun,        \* the number of the run (its checked_at)
    bno,         \* the number of the slice the loop is at
    spc,         \* where the save function is
    fields,      \* saveStreams of mx: the optional columns still sent
    attempts,    \* attempts[run][slice]: the calls made for the slice, with their errors
    warned,      \* the <<run, slice>> pairs a warning named as failed
    \* ---- downloads ----
    what,        \* which download is made
    tries,       \* the outcomes of the fetch attempts, in order
    waits,       \* the delays slept so far
    fpc,         \* where the download is
    \* ---- record build ----
    survivors,   \* the channels with their working streams
    built,       \* the records main built
    \* ---- functions checked on their own ----
    arg,         \* the arguments the function is applied to
    ret          \* its result

idxVars == <<keepAll, nsrc, nch, cur, heap, channels, nameMap, seen, requireProgs>>
matchVars == <<cand, res, m3u, manual, rec>>
dispVars == <<inDisp, dispChunks, dispLen, dispTruncated, dispNames>>
progVars == <<now, ingest, last, prog, programs, dropped>>
runVars == <<pc, urls, srcLog>>
textVars == <<field, textBuf, inTag, nField, nTxt>>
batchVars == <<recs, arrays, batch, flights, nfid, handed, sink, bpc, savePos, sb>>
poolVars == <<scraped, poolItems, okOf, limit, taken, inflight, results, doneOrder, workingSet,
              persisted, ppc>>
masterVars == <<masterText, bestUrl>>
probeVars == <<net, reqs, timers, prc, pres, reported>>
saveVars == <<saver, schema, store, nrows, srun, bno, spc, fields, attempts, warned>>
fetchVars == <<what, tries, waits, fpc>>
buildVars == <<survivors, built>>
pureVars == <<arg, ret>>
lateVars == <<saveVars, fetchVars, buildVars, pureVars>>
restVars == <<textVars, batchVars, poolVars, masterVars, probeVars, lateVars>>
coreVars == <<variant, phase, idxVars, matchVars, dispVars, progVars, runVars>>
exceptText == <<coreVars, batchVars, poolVars, masterVars, probeVars, lateVars>>
exceptBatch == <<coreVars, textVars, poolVars, masterVars, probeVars, lateVars>>
exceptPool == <<coreVars, textVars, batchVars, masterVars, probeVars, lateVars>>
exceptMaster == <<coreVars, textVars, batchVars, poolVars, probeVars, lateVars>>
exceptProbe == <<coreVars, textVars, batchVars, poolVars, masterVars, lateVars>>
earlyVars == <<coreVars, textVars, batchVars, poolVars, masterVars, probeVars>>
exceptSave == <<earlyVars, fetchVars, buildVars, pureVars>>
exceptFetch == <<earlyVars, saveVars, buildVars, pureVars>>
exceptPure == <<earlyVars, saveVars, fetchVars, buildVars>>
vars == <<variant, phase, idxVars, matchVars, dispVars, progVars, runVars, restVars>>

-----------------------------------------------------------------------------
(* Bounds of the model *)

MaxSources == 2
MaxChannels == 2
MaxNamesPerCh == 1
MaxTexts == 3
MaxProgs == 2
MaxUrls == 3

-----------------------------------------------------------------------------
(* Sequences as the ordered sets of JavaScript (Set, Map keep insertion order) *)

SeqToSet(s) == {s[i] : i \in DOMAIN s}

AddU(s, x) == IF x \in SeqToSet(s) THEN s ELSE Append(s, x)

RECURSIVE AddAllU(_, _)
AddAllU(s, xs) == IF xs = <<>> THEN s ELSE AddAllU(AddU(s, Head(xs)), Tail(xs))

RECURSIVE Flatten(_)
Flatten(ss) == IF ss = <<>> THEN <<>> ELSE Head(ss) \o Flatten(Tail(ss))

Take(s, n) == IF Len(s) <= n THEN s ELSE SubSeq(s, 1, n)

NonEmpty(ss) == SelectSeq(ss, LAMBDA v : v # <<>>)

Last(s) == s[Len(s)]

DropLast(s, n) == SubSeq(s, 1, Len(s) - n)

\* const x = ...: a value computed once and used by name
With(x, F(_)) == F(x)

-----------------------------------------------------------------------------
(* Normalizer *)

Digits == {"1", "2", "7", "40"}
Hours == {"h", "hora", "horas"}

\* String.prototype.toLowerCase on a lexeme
Lower(w) ==
    CASE w = "Las" -> "las"
      [] w = "Estrellas" -> "estrellas"
      [] w = "Azteca" -> "azteca"
      [] w = "AZTECA" -> "azteca"
      [] w = "Canal" -> "canal"
      [] w = "Me'xico" -> "me'xico"
      [] w = "XEW" -> "xew"
      [] w = "MX" -> "mx"
      [] w = "Foro" -> "foro"
      [] OTHER -> w

\* normalize('NFD') and removal of the diacritics
stripAccents(w) ==
    CASE w = "me'xico" -> "mexico"
      [] w = "telefo'rmula" -> "teleformula"
      [] w = "sie'te" -> "siete"
      [] OTHER -> w

normalizeNumerals(w) ==
    CASE w = "uno" -> "1"
      [] w = "dos" -> "2"
      [] w = "siete" -> "7"
      [] OTHER -> w

\* the first pattern at position i: [-+] digits (h|hora|horas); the second:
\* digits (hora|horas).  The third pattern, "( digits horas )", never
\* matches what the second left, and "time shift" is not in the vocabulary.
RECURSIVE dropTimeshift(_)
dropTimeshift(s) ==
    IF s = <<>> THEN <<>>
    ELSE IF Len(s) >= 3 /\ s[1] \in {"-", "+"} /\ s[2] \in Digits /\ s[3] \in Hours
         THEN dropTimeshift(SubSeq(s, 4, Len(s)))
    ELSE IF Len(s) >= 2 /\ s[1] \in Digits /\ s[2] \in {"hora", "horas"}
         THEN dropTimeshift(SubSeq(s, 3, Len(s)))
    ELSE <<Head(s)>> \o dropTimeshift(Tail(s))

stripLeadingCanal(s) ==
    IF Len(s) >= 2 /\ Lower(s[1]) = "canal"
    THEN IF s[2] \in {".", "-", "_"} THEN SubSeq(s, 3, Len(s)) ELSE Tail(s)
    ELSE s

\* (\.(mx|us) | \s+\(?mx\)? | \s+m[ee']xico | \s+usa | \s+eeuu) \s* $
stripCountryTail(s) ==
    LET l(i) == Lower(s[i])
        n == Len(s)
    IN  IF n >= 2 /\ s[n - 1] = "." /\ l(n) \in {"mx", "us"} THEN DropLast(s, 2)
        ELSE IF n >= 4 /\ s[n] = ")" /\ l(n - 1) = "mx" /\ s[n - 2] = "("
                /\ s[n - 3] \notin {".", "("} THEN DropLast(s, 3)
        ELSE IF n >= 3 /\ l(n) = "mx" /\ s[n - 1] = "("
                /\ s[n - 2] \notin {".", "("} THEN DropLast(s, 2)
        ELSE IF n >= 2 /\ l(n) \in {"mx", "mexico", "me'xico", "usa", "eeuu"}
                /\ s[n - 1] \notin {".", "("} THEN DropLast(s, 1)
        ELSE s

Punct == {".", "_", "(", ")", ",", "-", "+", "&"}

STOP(v) ==
    IF v = "mx"
    THEN {"canal", "tv", "television", "hd", "sd", "mx", "mexico", "me'xico",
          "hora", "horas", "us", "usa", "eeuu", "el", "la", "los", "las",
          "de", "del", "y", "en", "the", "channel"}
    ELSE {"canal", "tv", "television", "hd", "sd", "mx", "mexico", "me'xico",
          "hora", "horas", "us", "usa", "eeuu"}

MapSeq(s, F(_)) == [i \in DOMAIN s |-> F(s[i])]

\* tokensOf: the ordered token list of a string
tokensOf(v, s) ==
    LET p1 == MapSeq(s, LAMBDA w : stripAccents(normalizeNumerals(Lower(w))))
        p2 == stripCountryTail(dropTimeshift(p1))
        p3 == MapSeq(p2, LAMBDA w : IF w = "&" THEN "and" ELSE w)
    IN  SelectSeq(p3, LAMBDA t : t \notin Punct /\ t \notin STOP(v))

\* keyOf: the sorted, de-duplicated, blank-joined token list.  Tokens hold
\* no blank, so the joined string and the set of tokens determine each
\* other: the key is modelled as the set, the empty string as {}.
keyOf(v, s) == SeqToSet(tokensOf(v, s))

-----------------------------------------------------------------------------
(* Variant expansion *)

FlatSet(v) ==
    CASE v = "mx" -> {".", "_", "(", ")", ",", "-"}
      [] v = "p4" -> {".", "_", "(", ")", ","}
      [] OTHER -> {".", "_"}

\* flat: the listed marks become blanks, blanks are collapsed
flat(v, x) == SelectSeq(x, LAMBDA w : w \notin FlatSet(v))

FirstIndex(s, w) ==
    IF w \in SeqToSet(s) THEN CHOOSE i \in DOMAIN s : s[i] = w /\ \A j \in 1..(i - 1) : s[j] # w
    ELSE 0

\* orig.matchAll(/\(([^)]+)\)/g): what stands between "(" and the next ")"
RECURSIVE parenBits(_)
parenBits(s) ==
    IF s = <<>> THEN <<>>
    ELSE IF s[1] = "("
         THEN LET rest == Tail(s)
                  j == FirstIndex(rest, ")")
              IN  IF j >= 2
                  THEN <<SubSeq(rest, 1, j - 1)>> \o parenBits(SubSeq(rest, j + 1, Len(rest)))
                  ELSE parenBits(rest)
    ELSE parenBits(Tail(s))

\* p.split(/\s*-\s*/)
RECURSIVE splitDash(_)
splitDash(p) ==
    LET j == FirstIndex(p, "-")
    IN  IF j = 0 THEN <<p>>
        ELSE <<SubSeq(p, 1, j - 1)>> \o splitDash(SubSeq(p, j + 1, Len(p)))

\* words of three to five letters or digits, the shape of a call sign
CallSignShaped == {"xew", "XEW", "xhdf", "foro", "uno", "las", "Las", "dos"}
GeoWords == {"monterrey", "cdmx", "mexico", "mx"}

\* a trailing parenthesised group, from its leftmost possible "("
stripTrailingParen(s) ==
    LET n == Len(s)
        opens == {i \in 1..n : s[i] = "(" /\ \A j \in (i + 1)..(n - 1) : s[j] # ")"}
    IN  IF n >= 2 /\ s[n] = ")" /\ opens # {}
        THEN SubSeq(s, 1, (CHOOSE i \in opens : \A j \in opens : i <= j) - 1)
        ELSE s

\* a trailing "- XEW"
stripTrailingCallsign(x1) ==
    LET n1 == Len(x1)
    IN  IF n1 >= 2 /\ x1[n1 - 1] = "-" /\ x1[n1] \in CallSignShaped
        THEN DropLast(x1, 2) ELSE x1

\* a geographic word after a blank, and all that follows it
stripGeo(x2) ==
    LET geo == {i \in 2..Len(x2) : Lower(x2[i]) \in GeoWords /\ x2[i - 1] \notin {".", "("}}
    IN  IF geo = {} THEN x2
        ELSE SubSeq(x2, 1, (CHOOSE i \in geo : \A j \in geo : i <= j) - 1)

stripGeoAndCallsigns(s) == stripGeo(stripTrailingCallsign(stripTrailingParen(s)))

CALL == << [key |-> "xew", brand |-> <<"Las", "Estrellas">>],
           [key |-> "xhlat", brand |-> <<"Azteca", "7">>] >>

ALIAS == << [canon |-> <<"teleformula">>,
             alts |-> << <<"telefo'rmula">>, <<"tele", "formula">> >>],
            [canon |-> <<"milenio", "television">>,
             alts |-> << <<"milenio", "tv">>, <<"milenio">> >>],
            [canon |-> <<"azteca", "1">>,
             alts |-> << <<"azteca", "uno">> >>],
            [canon |-> <<"azteca", "7">>,
             alts |-> << <<"azteca", "siete">>, <<"azteca7">> >>],
            [canon |-> <<"las", "estrellas">>,
             alts |-> << <<"canal", "de", "las", "estrellas">>, <<"estrellas">> >>] >>

\* addAlias(v) for the rows i..Len(ALIAS), on the ordered set out
RECURSIVE addAlias(_, _, _)
addAlias(out, v, i) ==
    IF i > Len(ALIAS) THEN out
    ELSE LET k == MapSeq(v, Lower)
             row == ALIAS[i]
             hit == k = row.canon \/ k \in SeqToSet(row.alts)
         IN  addAlias(IF hit THEN AddAllU(AddU(out, row.canon), row.alts) ELSE out, v, i + 1)

RECURSIVE addAliases(_, _)
addAliases(out, vs) ==
    IF vs = <<>> THEN out ELSE addAliases(addAlias(out, Head(vs), 1), Tail(vs))

\* mx-scrape-and-match.mjs expandNameVariants
expandNameVariantsMx(s) ==
    IF s = <<>> THEN <<>>
    ELSE
    LET orig == s
        dotSplit == SelectSeq(orig, LAMBDA w : w # ".")
        o1 == AddAllU(<<>>, NonEmpty(<<orig, dotSplit, flat("mx", orig)>>))
        bits == parenBits(orig)
        perBit(p) == NonEmpty(<<flat("mx", p)>>)
                       \o MapSeq(splitDash(p), LAMBDA h : flat("mx", h))
        o2 == AddAllU(o1, Flatten(MapSeq(bits, perBit)))
        o3 == AddU(o2, flat("mx", stripGeoAndCallsigns(stripLeadingCanal(orig))))
        lowered == {Lower(w) : w \in SeqToSet(orig)}
        hints == SelectSeq(CALL, LAMBDA c : c.key \in lowered)
        o4 == AddAllU(o3, MapSeq(hints, LAMBDA c : c.brand))
    IN  With(o4, LAMBDA out : NonEmpty(addAliases(out, out)))

\* part_004 (flat: . _ ( ) ,) and part_005 (flat: . _) expandNameVariants
expandNameVariantsP(v, s) ==
    IF s = <<>> THEN <<>>
    ELSE
    With(s, LAMBDA orig :
    With(stripLeadingCanal(orig), LAMBDA noCanal :
    With(dropTimeshift(noCanal), LAMBDA noTS :
    With(stripCountryTail(noTS), LAMBDA noTail :
        AddAllU(<<>>, NonEmpty(<<orig, noCanal, noTS, noTail,
                                 flat(v, orig), flat(v, noCanal),
                                 flat(v, noTS), flat(v, noTail)>>))))))

\* part_003 calls an expandNameVariants its fragment does not define; it
\* belongs to the revision of part_005 (same keep rule, same caps).
expandNameVariants(v, s) ==
    IF v = "mx" THEN expandNameVariantsMx(s)
    ELSE IF v = "p4" THEN expandNameVariantsP("p4", s)
    ELSE expandNameVariantsP("p5", s)

\* /\.mx$/i on the id, /\b(m[ee']xico|mx)\b/i on a display name
isMexicoEntry(id, names) ==
    \/ (Len(id) >= 2 /\ id[Len(id) - 1] = "." /\ Lower(Last(id)) = "mx")
    \/ \E i \in DOMAIN names :
          \E j \in DOMAIN names[i] : Lower(names[i][j]) \in {"mexico", "me'xico", "mx"}

\* /\.mx\b/i on the id, /me'xico|mexico|\bmx\b/i on a display name
mexicoish(id, names) ==
    \/ \E j \in 2..Len(id) : id[j - 1] = "." /\ Lower(id[j]) = "mx"
    \/ \E i \in DOMAIN names :
          \E j \in DOMAIN names[i] : Lower(names[i][j]) \in {"mexico", "me'xico", "mx"}

-----------------------------------------------------------------------------
(* Channel Index: the closetag handlers of the EPG parsers *)

MAX_NAMES_PER_CH == 24
MAX_VARIANTS == 64

Variants == {"mx", "p3", "p4", "p5"}

\* channel ids and display names the modelled documents draw from
IdPool == { <<"xew", ".", "mx">>, <<"a7", ".", "us">>, <<>> }
NamePool == { <<"Canal", "de", "las", "Estrellas", "(", "Me'xico", ")">>,
              <<"Azteca", "7">>,
              <<"Foro", "tv", "MX">> }

\* names of the scraped channels (the candidates of the matcher)
CandPool == { <<"Las", "Estrellas">>, <<"Azteca">>, <<"foro", "Azteca", "7">>,
              <<"Foro", "tv">>, <<"tv">> }

\* main: the tokens of every scraped channel that has a working stream
scrapedTokenUniverse(v) == UNION {SeqToSet(tokensOf(v, c)) : c \in CandPool}

\* Map.get / Map.has on an insertion-ordered map of [k, e] pairs; 0 is undefined
NmHas(nm, k) == \E i \in DOMAIN nm : nm[i].k = k
NmGet(nm, k) == IF NmHas(nm, k) THEN nm[CHOOSE i \in DOMAIN nm : nm[i].k = k].e ELSE 0
ChGet(ch, id) == IF id \in DOMAIN ch THEN ch[id] ELSE 0
ChSet(ch, id, r) == [x \in DOMAIN ch \cup {id} |-> IF x = id THEN r ELSE ch[x]]

\* a variant of setKeys without the nameMap.has(k) guard: Map.set re-binds the key
RECURSIVE setKeysRebind(_, _, _, _)
setKeysRebind(v, nm, names, ref) ==
    IF names = <<>> THEN nm
    ELSE LET k == keyOf(v, Head(names))
         IN  setKeysRebind(v, IF k = {} THEN nm
                              ELSE IF NmHas(nm, k)
                                   THEN [i \in DOMAIN nm |-> IF nm[i].k = k THEN [k |-> k, e |-> ref] ELSE nm[i]]
                                   ELSE Append(nm, [k |-> k, e |-> ref]),
                          Tail(names), ref)

\* for (const n of names) { const k = keyOf(n); if (k && !nameMap.has(k)) nameMap.set(k, entry); }
RECURSIVE setKeys(_, _, _, _)
setKeys(v, nm, names, ref) ==
    IF names = <<>> THEN nm
    ELSE LET k == keyOf(v, Head(names))
         IN  setKeys(v, IF k # {} /\ ~NmHas(nm, k) THEN Append(nm, [k |-> k, e |-> ref]) ELSE nm,
                     Tail(names), ref)

\* the names Set of a closing channel: the variants of each display name, then of the id
namesOfChannel(v, c) ==
    AddAllU(AddAllU(<<>>, NonEmpty(Flatten(MapSeq(c.namesRaw, LAMBDA n : expandNameVariants(v, n))))),
            NonEmpty(expandNameVariants(v, c.id)))

tokenSetOf(v, names) == UNION {SeqToSet(tokensOf(v, names[i])) : i \in DOMAIN names}

NewEntry(id, names, toks) == [id |-> id, names |-> names, tokenSet |-> toks, hasProgs |-> FALSE]

\* mx-scrape-and-match.mjs and part_004: merge into the entry of the id
closeChannelMx(v, c, ka, h, ch, nm) ==
    LET id == c.id
        keep == IF v = "p4" THEN (ka \/ isMexicoEntry(id, c.namesRaw)) /\ id # <<>>
                ELSE ka \/ isMexicoEntry(id, c.namesRaw)
        old == ChGet(ch, id)
        ref == IF old = 0 THEN Len(h) + 1 ELSE old
        oldNames == IF old = 0 THEN <<>> ELSE h[old].names
    IN  IF keep
        THEN With(Take(namesOfChannel(v, c), MAX_VARIANTS), LAMBDA limited :
             With(Take(AddAllU(<<>>, oldNames \o limited), MAX_VARIANTS), LAMBDA names :
             With([NewEntry(id, names, tokenSetOf(v, names)) EXCEPT
                      !.hasProgs = IF old = 0 THEN FALSE ELSE h[old].hasProgs], LAMBDA entry :
                 [heap |-> IF old = 0 THEN Append(h, entry) ELSE [h EXCEPT ![old] = entry],
                  channels |-> ChSet(ch, id, ref),
                  nameMap |-> setKeys(v, nm, names, ref)])))
        ELSE [heap |-> h, channels |-> ch, nameMap |-> nm]

\* for (const v of names) if (existing.names.length < MAX_VARIANTS && !existing.names.includes(v)) push
RECURSIVE mergeNames(_, _)
mergeNames(have, names) ==
    IF names = <<>> THEN have
    ELSE mergeNames(IF Len(have) < MAX_VARIANTS THEN AddU(have, Head(names)) ELSE have,
                    Tail(names))

\* part_005: Mexico-related channels whose tokens meet the scraped tokens
closeChannelP5(v, c, ka, h, ch, nm) ==
    With(c.id, LAMBDA id :
    With(namesOfChannel(v, c), LAMBDA names :
    With(tokenSetOf(v, names), LAMBDA toks :
    LET intersects == toks \cap scrapedTokenUniverse(v) # {}
        old == ChGet(ch, id)
        fresh == NewEntry(id, Take(names, MAX_VARIANTS), toks)
        merged == [h[old] EXCEPT !.names = mergeNames(h[old].names, names),
                                 !.tokenSet = h[old].tokenSet \cup toks]
    IN  IF mexicoish(id, c.namesRaw) /\ intersects
        THEN IF old = 0
             THEN [heap |-> Append(h, fresh), channels |-> ChSet(ch, id, Len(h) + 1),
                   nameMap |-> setKeys(v, nm, fresh.names, Len(h) + 1)]
             ELSE [heap |-> [h EXCEPT ![old] = merged], channels |-> ch,
                   nameMap |-> setKeys(v, nm, names, old)]
        ELSE [heap |-> h, channels |-> ch, nameMap |-> nm])))

\* part_003: every channel whose tokens meet the scraped tokens gets a new entry object
closeChannelP3(v, c, ka, h, ch, nm) ==
    With(namesOfChannel(v, c), LAMBDA names :
    With(tokenSetOf(v, names), LAMBDA toks :
    LET intersects == toks \cap scrapedTokenUniverse(v) # {}
        entry == NewEntry(c.id, names, toks)
    IN  IF intersects
        THEN [heap |-> Append(h, entry), channels |-> ChSet(ch, c.id, Len(h) + 1),
              nameMap |-> setKeys(v, nm, names, Len(h) + 1)]
        ELSE [heap |-> h, channels |-> ch, nameMap |-> nm]))

closeChannel(v, c, ka, h, ch, nm) ==
    CASE v \in {"mx", "p4"} -> closeChannelMx(v, c, ka, h, ch, nm)
      [] v = "p5" -> closeChannelP5(v, c, ka, h, ch, nm)
      [] OTHER -> closeChannelP3(v, c, ka, h, ch, nm)

-----------------------------------------------------------------------------
(* Channel Matcher.  A score is a fraction <<numerator, denominator>>. *)

FUZZY_MIN_PCT == 45      \* FUZZY_MIN = 0.45, in hundredths
BRAND_STEP_PCT == 5      \* 0.05 per shared brand token, in hundredths
BRAND_MAX_HITS == 3
FUZZY_SLACK_PCT == 5     \* the 0.05 of "FUZZY_MIN - 0.05", in hundredths

BRAND == {"azteca", "adn", "milenio", "fox", "sports", "premium", "estrellas",
          "teleformula", "maria", "vision", "las"}

Gt(a, b) == a[1] * b[2] > b[1] * a[2]
GePct(a, pct) == a[1] * 100 >= pct * a[2]
Min2(a, b) == IF a <= b THEN a ELSE b

\* [...new Set(nameMap.values())]: the entries, in the order of their first key
entriesOf(nm) == AddAllU(<<>>, MapSeq(nm, LAMBDA p : p.e))

jaccard(aTokens, bTokens) ==
    LET A == SeqToSet(aTokens)
        B == SeqToSet(bTokens)
        inter == Cardinality(A \cap B)
        u == Cardinality(A) + Cardinality(B) - inter
    IN  <<inter, IF u = 0 THEN 1 ELSE u>>

scorePair(aTokens, bTokens) ==
    LET A == SeqToSet(aTokens)
        B == SeqToSet(bTokens)
        jacc == jaccard(aTokens, bTokens)
        brandHits == Cardinality(A \cap B \cap BRAND)
        bonus == Min2(brandHits, BRAND_MAX_HITS) * BRAND_STEP_PCT
    IN  <<100 * jacc[1] + bonus * jacc[2], 100 * jacc[2]>>

\* for (const e of entries) for (const nm of e.names) { sc = ...; if (sc > bestScore) ... }
RECURSIVE bestFuzzy(_, _, _, _, _, _)
bestFuzzy(v, sTokArr, h, pairs, best, bestScore) ==
    IF pairs = <<>> THEN [entry |-> best, score |-> bestScore]
    ELSE With(Head(pairs), LAMBDA pr :
         With(IF v = "mx" THEN scorePair(sTokArr, tokensOf(v, pr.n))
              ELSE jaccard(sTokArr, tokensOf(v, pr.n)), LAMBDA sc :
             IF Gt(sc, bestScore)
             THEN bestFuzzy(v, sTokArr, h, Tail(pairs), pr.e, sc)
             ELSE bestFuzzy(v, sTokArr, h, Tail(pairs), best, bestScore)))

namePairs(h, entries) ==
    Flatten(MapSeq(entries, LAMBDA r : MapSeq(h[r].names, LAMBDA n : [e |-> r, n |-> n])))

\* the first entry whose token set holds the single token; 0 when none does
anchorOf(h, entries, only) ==
    LET hits == {i \in DOMAIN entries : only \in h[entries[i]].tokenSet}
    IN  IF hits = {} THEN 0 ELSE entries[CHOOSE i \in hits : \A j \in hits : i <= j]

\* a subset tier that keeps the first entry holding every token
subsetOfFirst(h, entries, sTok) ==
    LET hits == {i \in DOMAIN entries : sTok \subseteq h[entries[i]].tokenSet}
    IN  IF hits = {} THEN 0 ELSE entries[CHOOSE i \in hits : \A j \in hits : i <= j]

\* if (allIn && E.size < subsetBestSize) { subsetBest = e; subsetBestSize = E.size; }
subsetOf(h, entries, sTok) ==
    LET hits == {i \in DOMAIN entries : sTok \subseteq h[entries[i]].tokenSet}
        size(i) == Cardinality(h[entries[i]].tokenSet)
    IN  IF hits = {} THEN 0
        ELSE entries[CHOOSE i \in hits : \A j \in hits : size(i) < size(j) \/ (size(i) = size(j) /\ i <= j)]

\* a variant of findMatch whose anchor tier is missing
findMatchNoAnchor(v, channelName, nameKey, nm, h) ==
    With(entriesOf(nm), LAMBDA entries :
    With(tokensOf(v, channelName), LAMBDA sTokArr :
    With(bestFuzzy(v, sTokArr, h, namePairs(h, entries), 0, <<0, 1>>), LAMBDA fz :
    LET exact == NmGet(nm, nameKey)
        subsetBest == subsetOf(h, entries, SeqToSet(sTokArr))
    IN  IF exact # 0 THEN [entry |-> exact, score |-> <<1, 1>>, method |-> "exact"]
        ELSE IF subsetBest # 0 THEN [entry |-> subsetBest, score |-> <<9, 10>>, method |-> "subset"]
        ELSE IF fz.entry # 0 /\ GePct(fz.score, FUZZY_MIN_PCT)
             THEN [entry |-> fz.entry, score |-> fz.score, method |-> "fuzzy"]
        ELSE [entry |-> 0, score |-> <<0, 1>>, method |-> "none"])))

\* part_004 and part_005 findMatch
findMatch(v, channelName, nameKey, nm, h) ==
    With(entriesOf(nm), LAMBDA entries :
    With(tokensOf(v, channelName), LAMBDA sTokArr :
    With(bestFuzzy(v, sTokArr, h, namePairs(h, entries), 0, <<0, 1>>), LAMBDA fz :
    LET exact == NmGet(nm, nameKey)
        sTok == SeqToSet(sTokArr)
        anchor == IF Cardinality(sTok) = 1 THEN anchorOf(h, entries, CHOOSE t \in sTok : TRUE) ELSE 0
        subsetBest == subsetOf(h, entries, sTok)
    IN  IF exact # 0 THEN [entry |-> exact, score |-> <<1, 1>>, method |-> "exact"]
        ELSE IF anchor # 0 THEN [entry |-> anchor, score |-> <<99, 100>>, method |-> "anchor"]
        ELSE IF subsetBest # 0 THEN [entry |-> subsetBest, score |-> <<9, 10>>, method |-> "subset"]
        ELSE IF fz.entry # 0 /\ GePct(fz.score, FUZZY_MIN_PCT)
             THEN [entry |-> fz.entry, score |-> fz.score, method |-> "fuzzy"]
        ELSE [entry |-> 0, score |-> <<0, 1>>, method |-> "none"])))

\* mx-scrape-and-match.mjs findMatchByName
findMatchByName(v, channelName, nameKey, nm, h) ==
    With(bestFuzzy(v, tokensOf(v, channelName), h, namePairs(h, entriesOf(nm)), 0, <<0, 1>>),
         LAMBDA fz :
    LET exact == NmGet(nm, nameKey)
    IN  IF exact # 0 THEN [entry |-> exact, score |-> <<1, 1>>, method |-> "exact"]
        ELSE IF fz.entry # 0 /\ GePct(fz.score, FUZZY_MIN_PCT - FUZZY_SLACK_PCT)
             THEN [entry |-> fz.entry, score |-> fz.score, method |-> "brand-fuzzy"]
        ELSE [entry |-> 0, score |-> fz.score, method |-> "none"])

matchOf(v, channelName, nm, h) ==
    IF v = "mx" THEN findMatchByName(v, channelName, keyOf(v, channelName), nm, h)
    ELSE findMatch(v, channelName, keyOf(v, channelName), nm, h)

-----------------------------------------------------------------------------
(* Optional inputs of mx-scrape-and-match.mjs: the curated playlist and the
   manual mapping.  An id is a string; <<>> is the empty string or null. *)

Lookup(f, k) == IF k \in DOMAIN f THEN f[k] ELSE <<>>
Put(f, k, x) == [y \in DOMAIN f \cup {k} |-> IF y = k THEN x ELSE f[y]]

\* for (const it of items) if (it.url && it.tvg_id) out.byUrl.set(it.url, it.tvg_id)
RECURSIVE m3uByUrl(_, _)
m3uByUrl(f, items) ==
    IF items = <<>> THEN f
    ELSE LET it == Head(items)
         IN  m3uByUrl(IF it.url # "" /\ it.tvg_id # <<>> THEN Put(f, it.url, it.tvg_id) ELSE f,
                      Tail(items))

\* if (it.tvg_id && k && !seen.has(k)) { out.byNameKey.set(k, it.tvg_id); seen.add(k); }
RECURSIVE m3uByNameKey(_, _)
m3uByNameKey(f, items) ==
    IF items = <<>> THEN f
    ELSE LET it == Head(items)
             k == keyOf("mx", it.tvg_name)
         IN  m3uByNameKey(IF it.tvg_id # <<>> /\ k # {} /\ k \notin DOMAIN f
                          THEN Put(f, k, it.tvg_id) ELSE f,
                          Tail(items))

buildM3ULookups(items) == [byUrl |-> m3uByUrl(<<>>, items), byNameKey |-> m3uByNameKey(<<>>, items)]

RECURSIVE manualByTvgId(_, _)
manualByTvgId(f, rows) ==
    IF rows = <<>> THEN f
    ELSE LET row == Head(rows)
         IN  manualByTvgId(IF row.epg_id # <<>> /\ row.tvg # <<>> THEN Put(f, row.tvg, row.epg_id) ELSE f,
                           Tail(rows))

RECURSIVE manualByNameKey(_, _)
manualByNameKey(f, rows) ==
    IF rows = <<>> THEN f
    ELSE LET row == Head(rows)
         IN  manualByNameKey(IF row.epg_id # <<>> /\ row.m3u_name # <<>>
                             THEN Put(f, keyOf("mx", row.m3u_name), row.epg_id) ELSE f,
                             Tail(rows))

loadManualMap(rows) == [byNameKey |-> manualByNameKey(<<>>, rows), byTvgId |-> manualByTvgId(<<>>, rows)]

\* the playlists and mappings the modelled runs draw from
M3uItem1 == [tvg_id |-> <<"a7", ".", "us">>, tvg_name |-> <<"Azteca">>, url |-> "u1"]
ManualRow1 == [epg_id |-> <<"zz", ".", "mx">>, tvg |-> <<>>, m3u_name |-> <<"Azteca">>]
ManualRow2 == [epg_id |-> <<"xew", ".", "mx">>, tvg |-> <<"a7", ".", "us">>, m3u_name |-> <<>>]
InputPool == { [items |-> <<>>, rows |-> <<>>],
               [items |-> <<M3uItem1>>, rows |-> <<>>],
               [items |-> <<>>, rows |-> <<ManualRow1>>],
               [items |-> <<M3uItem1>>, rows |-> <<ManualRow2>>] }
UrlPool == {"u1", "u2"}

-----------------------------------------------------------------------------
(* Ingestion Coordinator: one Ingest Record per working stream of a channel *)

\* entries.find(e => e.id === manualEpg): the first entry with that id; 0 when none
findById(h, entries, id) ==
    LET hits == {i \in DOMAIN entries : h[entries[i]].id = id}
    IN  IF hits = {} THEN 0 ELSE entries[CHOOSE i \in hits : \A j \in hits : i <= j]

Or(a, b) == IF a # <<>> THEN a ELSE b
FirstName(e) == IF e.names = <<>> THEN <<>> ELSE e.names[1]

\* mx-scrape-and-match.mjs main, lines 598-627, for the stream url of channel name
recordMx(name, url, mu, man, nm, h) ==
    With(keyOf("mx", name), LAMBDA key :
    With(Lookup(mu.byNameKey, key), LAMBDA tvgIdFromName :
    With(Or(Lookup(man.byNameKey, key),
            IF tvgIdFromName # <<>> THEN Lookup(man.byTvgId, tvgIdFromName) ELSE <<>>),
         LAMBDA manualEpg :
    With(findMatchByName("mx", name, key, nm, h), LAMBDA m :
    With(findById(h, entriesOf(nm), manualEpg), LAMBDA byId :
    With(IF manualEpg # <<>> THEN (IF byId # 0 THEN byId ELSE m.entry) ELSE m.entry,
         LAMBDA entry :
    LET method == IF manualEpg # <<>> /\ entry # 0 THEN "manual-map" ELSE m.method
        entryId == IF entry # 0 THEN h[entry].id ELSE <<>>
        bestId == Or(entryId, tvgIdFromName)
        urlTvg == Lookup(mu.byUrl, url)
        tvg_id == Or(urlTvg, Or(tvgIdFromName, bestId))
    IN  [stream_url |-> url, channel_guess |-> name, tvg_id |-> tvg_id,
         epg_channel_id |-> Or(entryId, tvg_id),
         epg_display_name |-> IF entry # 0 THEN FirstName(h[entry]) ELSE <<>>,
         working |-> TRUE,
         channel_name |-> IF entry # 0 THEN Or(FirstName(h[entry]), name) ELSE name,
         entry |-> entry,
         method |-> IF entry # 0 THEN method ELSE "none"]))))))

\* part_004 and part_005 main: the record of a stream of a matched or unmatched channel
recordP(v, name, url, nm, h) ==
    With(findMatch(v, name, keyOf(v, name), nm, h), LAMBDA m :
        [stream_url |-> url, channel_guess |-> name, tvg_id |-> <<>>,
         epg_channel_id |-> IF m.entry # 0 THEN h[m.entry].id ELSE <<>>,
         epg_display_name |-> IF m.entry # 0 THEN FirstName(h[m.entry]) ELSE <<>>,
         working |-> TRUE,
         channel_name |-> <<>>,
         entry |-> m.entry,
         method |-> m.method])

NoRes == [entry |-> 0, score |-> <<0, 1>>, method |-> "unset"]
NoRec == [stream_url |-> "", channel_guess |-> <<>>, tvg_id |-> <<>>, epg_channel_id |-> <<>>,
          epg_display_name |-> <<>>, working |-> FALSE, channel_name |-> <<>>,
          entry |-> 0, method |-> "unset"]

-----------------------------------------------------------------------------
(* The channel index machine: sources are parsed one after the other, each a
   sequence of <channel> elements and <programme> elements; then the index is
   filtered and the scraped channels are matched against it. *)

NoCur == <<>>
NoM3u == buildM3ULookups(<<>>)
NoManual == loadManualMap(<<>>)

DispIdle == /\ inDisp = FALSE /\ dispChunks = <<>> /\ dispLen = 0
            /\ dispTruncated = FALSE /\ dispNames = <<>>
NoEvent == [ev |-> "none"]
ProgIdle == /\ now = 0 /\ ingest = FALSE /\ last = NoEvent
            /\ prog = <<>> /\ programs = <<>> /\ dropped = <<>>
RunIdle == pc = "off" /\ urls = 0 /\ srcLog = <<>>
TextIdle == field = <<>> /\ textBuf = <<>> /\ inTag = FALSE /\ nField = 0 /\ nTxt = 0
BatchIdle ==
    /\ recs = 0 /\ arrays = <<>> /\ batch = 0 /\ flights = {} /\ nfid = 0
    /\ handed = <<>> /\ sink = <<>> /\ bpc = "off" /\ savePos = 0 /\ sb = FALSE
PoolIdle ==
    /\ scraped = <<>> /\ poolItems = <<>> /\ okOf = <<>> /\ limit = 0 /\ taken = 0
    /\ inflight = {} /\ results = <<>> /\ doneOrder = <<>> /\ workingSet = {}
    /\ persisted = <<>> /\ ppc = "off"
MasterIdle == masterText = <<>> /\ bestUrl = <<>>
ProbeIdle ==
    /\ net = <<>> /\ reqs = <<>> /\ timers = <<>> /\ prc = "off"
    /\ pres = <<>> /\ reported = <<>>
SaveIdle ==
    /\ saver = "" /\ schema = <<>> /\ store = <<>> /\ nrows = 0 /\ srun = 0 /\ bno = 0
    /\ spc = "off" /\ fields = <<>> /\ attempts = <<>> /\ warned = {}
FetchIdle == what = "" /\ tries = <<>> /\ waits = 0 /\ fpc = "off"
BuildIdle == survivors = <<>> /\ built = <<>>
PureIdle == arg = <<>> /\ ret = <<>>
LateIdle == SaveIdle /\ FetchIdle /\ BuildIdle /\ PureIdle
RestIdle == TextIdle /\ BatchIdle /\ PoolIdle /\ MasterIdle /\ ProbeIdle /\ LateIdle

InitIndex ==
    /\ variant \in Variants
    /\ phase = "idle"
    /\ keepAll = FALSE /\ nsrc = 0 /\ nch = 0 /\ cur = NoCur
    /\ heap = <<>> /\ channels = <<>> /\ nameMap = <<>> /\ seen = {}
    /\ requireProgs \in (IF variant = "p5" THEN BOOLEAN ELSE {FALSE})
    /\ cand = <<>> /\ res = NoRes /\ rec = NoRec
    /\ \E inp \in (IF variant = "mx" THEN InputPool ELSE {[items |-> <<>>, rows |-> <<>>]}) :
          /\ m3u = buildM3ULookups(inp.items)
          /\ manual = loadManualMap(inp.rows)
    /\ DispIdle /\ ProgIdle /\ RunIdle /\ RestIdle

\* the next url of the source loop; part_003 reads the single EPG_GZ_URL
OpenSource(ka) ==
    /\ phase = "idle"
    /\ nsrc < MaxSources
    /\ variant = "p3" => nsrc = 0
    /\ phase' = "parsing"
    /\ nsrc' = nsrc + 1
    /\ keepAll' = (variant \in {"mx", "p4"} /\ ka)
    /\ seen' = {}
    /\ UNCHANGED <<variant, nch, cur, heap, channels, nameMap, requireProgs,
                   matchVars, dispVars, progVars, runVars, restVars>>

\* opentag channel
OpenChannel(id) ==
    /\ phase = "parsing"
    /\ cur = NoCur
    /\ nch < MaxChannels
    /\ cur' = <<[id |-> id, namesRaw |-> <<>>]>>
    /\ nch' = nch + 1
    /\ UNCHANGED <<variant, phase, keepAll, nsrc, heap, channels, nameMap, seen, requireProgs,
                   matchVars, dispVars, progVars, runVars, restVars>>

\* closetag display-name with the trimmed text n
CloseDisplayName(n) ==
    /\ phase = "parsing"
    /\ cur # NoCur
    /\ Len(cur[1].namesRaw) < MaxNamesPerCh
    /\ cur' = IF n # <<>> /\ (variant = "p3" \/ Len(cur[1].namesRaw) < MAX_NAMES_PER_CH)
              THEN <<[cur[1] EXCEPT !.namesRaw = Append(@, n)]>>
              ELSE cur
    /\ UNCHANGED <<variant, phase, keepAll, nsrc, nch, heap, channels, nameMap, seen,
                   requireProgs, matchVars, dispVars, progVars, runVars, restVars>>

\* closetag channel
CloseChannel ==
    /\ phase = "parsing"
    /\ cur # NoCur
    /\ LET r == closeChannel(variant, cur[1], keepAll, heap, channels, nameMap)
       IN  /\ heap' = r.heap
           /\ channels' = r.channels
           /\ nameMap' = r.nameMap
    /\ cur' = NoCur
    /\ UNCHANGED <<variant, phase, keepAll, nsrc, nch, seen, requireProgs,
                   matchVars, dispVars, progVars, runVars, restVars>>

\* a <programme channel=cid> as the index sees it: part_005 notes the id at the
\* open tag, part_003 marks the entry of the id at the close tag
SeeProgramme(cid) ==
    /\ phase = "parsing"
    /\ cur = NoCur
    /\ variant \in {"p3", "p5"}
    /\ IF variant = "p5"
       THEN /\ seen' = IF cid # <<>> THEN seen \cup {cid} ELSE seen
            /\ heap' = heap
       ELSE /\ seen' = seen
            /\ heap' = IF ChGet(channels, cid) # 0
                       THEN [heap EXCEPT ![ChGet(channels, cid)].hasProgs = TRUE]
                       ELSE heap
    /\ UNCHANGED <<variant, phase, keepAll, nsrc, nch, cur, channels, nameMap, requireProgs,
                   matchVars, dispVars, progVars, runVars, restVars>>

\* part_005: for (const cid of programmesSeen) { const o = globalIdTo.get(cid); if (o) o.hasProgs = true; }
markSeen(h, ch, ids) ==
    [r \in DOMAIN h |-> IF \E cid \in ids : ChGet(ch, cid) = r
                        THEN [h[r] EXCEPT !.hasProgs = TRUE] ELSE h[r]]

\* the document ends
CloseSource ==
    /\ phase = "parsing"
    /\ cur = NoCur
    /\ phase' = "idle"
    /\ heap' = IF variant = "p5" THEN markSeen(heap, channels, seen) ELSE heap
    /\ UNCHANGED <<variant, keepAll, nsrc, nch, cur, channels, nameMap, seen, requireProgs,
                   matchVars, dispVars, progVars, runVars, restVars>>

\* part_005: if (EPG_REQUIRE_PROGS) delete the keys of entries without id or programmes
dropNoProgsP5(nm, h) == SelectSeq(nm, LAMBDA p : h[p.e].id # <<>> /\ h[p.e].hasProgs)

\* part_003: delete the keys whose id has no by-id entry with programmes
dropNoProgsP3(nm, h, ch) ==
    SelectSeq(nm, LAMBDA p : ChGet(ch, h[p.e].id) # 0 /\ h[ChGet(ch, h[p.e].id)].hasProgs)

\* after the last source: the filters that run before the index is returned
Finish ==
    /\ phase = "idle"
    /\ nsrc >= 1
    /\ phase' = "indexed"
    /\ nameMap' = CASE variant = "p5" /\ requireProgs -> dropNoProgsP5(nameMap, heap)
                    [] variant = "p3" -> dropNoProgsP3(nameMap, heap, channels)
                    [] OTHER -> nameMap
    /\ UNCHANGED <<variant, keepAll, nsrc, nch, cur, heap, channels, seen, requireProgs,
                   matchVars, dispVars, progVars, runVars, restVars>>

\* main: a scraped channel c with a working stream u is matched and its record
\* built.  The iterations of the loop over the scraped channels do not depend
\* on each other: a behaviour follows one of them.
Match(c, u) ==
    /\ phase = "indexed"
    /\ variant # "p3"
    /\ phase' = "matched"
    /\ cand' = c
    /\ res' = matchOf(variant, c, nameMap, heap)
    /\ rec' = IF variant = "mx" THEN recordMx(c, u, m3u, manual, nameMap, heap)
              ELSE recordP(variant, c, u, nameMap, heap)
    /\ UNCHANGED <<variant, idxVars, m3u, manual, dispVars, progVars, runVars, restVars>>

NextIndex ==
    \/ \E ka \in BOOLEAN : OpenSource(ka)
    \/ \E id \in IdPool : OpenChannel(id)
    \/ \E n \in NamePool : CloseDisplayName(n)
    \/ CloseChannel
    \/ \E cid \in IdPool : SeeProgramme(cid)
    \/ CloseSource
    \/ Finish
    \/ \E c \in CandPool, u \in UrlPool : Match(c, u)

SpecIndex == InitIndex /\ [][NextIndex]_vars

-----------------------------------------------------------------------------
(* Properties of the matcher and of the record builder *)

\* what each tier needs of the index to produce a match for candidate c
TierExact(v, c, nm) == NmHas(nm, keyOf(v, c))

TierSubset(v, c, nm, h) ==
    \E i \in DOMAIN nm : SeqToSet(tokensOf(v, c)) \subseteq h[nm[i].e].tokenSet

TierAnchor(v, c, nm, h) ==
    Cardinality(SeqToSet(tokensOf(v, c))) = 1 /\ TierSubset(v, c, nm, h)

TierFuzzy(v, c, nm, h) ==
    \E i \in DOMAIN nm : \E j \in DOMAIN h[nm[i].e].names :
        GePct(jaccard(tokensOf(v, c), tokensOf(v, h[nm[i].e].names[j])), FUZZY_MIN_PCT)

TierBrandFuzzy(v, c, nm, h) ==
    \E i \in DOMAIN nm : \E j \in DOMAIN h[nm[i].e].names :
        GePct(scorePair(tokensOf(v, c), tokensOf(v, h[nm[i].e].names[j])),
              FUZZY_MIN_PCT - FUZZY_SLACK_PCT)

FirstTier(v, c, nm, h) ==
    IF TierExact(v, c, nm) THEN "exact"
    ELSE IF TierAnchor(v, c, nm, h) THEN "anchor"
    ELSE IF TierSubset(v, c, nm, h) THEN "subset"
    ELSE IF TierFuzzy(v, c, nm, h) THEN "fuzzy"
    ELSE "none"

FirstTierMx(v, c, nm, h) ==
    IF TierExact(v, c, nm) THEN "exact"
    ELSE IF TierBrandFuzzy(v, c, nm, h) THEN "brand-fuzzy"
    ELSE "none"

TierScoreOk(r) ==
    /\ r.method = "exact" => r.score = <<1, 1>>
    /\ r.method = "anchor" => r.score = <<99, 100>>
    /\ r.method = "subset" => r.score = <<9, 10>>

ManualIdOf(c) ==
    Or(Lookup(manual.byNameKey, keyOf("mx", c)),
       IF Lookup(m3u.byNameKey, keyOf("mx", c)) # <<>>
       THEN Lookup(manual.byTvgId, Lookup(m3u.byNameKey, keyOf("mx", c))) ELSE <<>>)

\* the tvg-id the playlist holds for the stream or the name of the candidate
ExternalIdOf(c, u) == Or(Lookup(m3u.byUrl, u), Lookup(m3u.byNameKey, keyOf("mx", c)))

\* C2: when the manual mapping or the playlist holds an id for the
\* candidate, the record built for it carries that id as epg_channel_id,
\* whatever the name matcher returned.
C2_MappedIdWins ==
    (phase = "matched" /\ variant = "mx") =>
        LET want == Or(ManualIdOf(cand), ExternalIdOf(cand, rec.stream_url))
        IN  want # <<>> => rec.epg_channel_id = want

-----------------------------------------------------------------------------
(* Properties of the channel index *)

\* C3: while the index is built a key of the name-key map is never re-bound:
\* after every step each key maps to the entry that first registered it, and
\* no step of the parse removes a key.
C3_NoRebind ==
    [][\A i \in DOMAIN nameMap :
          /\ NmHas(nameMap', nameMap[i].k) => NmGet(nameMap', nameMap[i].k) = nameMap[i].e
          /\ phase = "parsing" => NmHas(nameMap', nameMap[i].k)]_vars

\* a channel was closed with a name whose key another entry had registered
C3_Witness ==
    \E r \in DOMAIN heap : \E j \in DOMAIN heap[r].names :
        /\ NmHas(nameMap, keyOf(variant, heap[r].names[j]))
        /\ NmGet(nameMap, keyOf(variant, heap[r].names[j])) # r

\* C4: in every state of the index build every key of the name-key map maps
\* to the entry the by-id map holds for that entry's id.
C4_KeysPointAtById ==
    \A i \in DOMAIN nameMap : ChGet(channels, heap[nameMap[i].e].id) = nameMap[i].e

-----------------------------------------------------------------------------
(* The display-name accumulator.  A text is a sequence of runs [c, n]: n
   times the character c, " " for white space and "a" for anything else. *)

MAX_NAME_CHARS(v) == IF v \in {"mx", "p4"} THEN 1024 ELSE 512

Run(c, n) == [c |-> c, n |-> n]

RECURSIVE TextLen(_)
TextLen(t) == IF t = <<>> THEN 0 ELSE Head(t).n + TextLen(Tail(t))

\* String.prototype.slice(0, n)
RECURSIVE Slice(_, _)
Slice(t, n) ==
    IF t = <<>> \/ n <= 0 THEN <<>>
    ELSE IF Head(t).n <= n THEN <<Head(t)>> \o Slice(Tail(t), n - Head(t).n)
    ELSE <<Run(Head(t).c, n)>>

\* String.prototype.trim()
RECURSIVE TrimLeft(_)
TrimLeft(t) == IF t # <<>> /\ Head(t).c = " " THEN TrimLeft(Tail(t)) ELSE t

RECURSIVE TrimRight(_)
TrimRight(t) == IF t # <<>> /\ Last(t).c = " " THEN TrimRight(DropLast(t, 1)) ELSE t

Trim(t) == TrimRight(TrimLeft(t))

\* the texts a SAX text event may deliver
TextPool == { <<>>,
              <<Run("a", 500)>>,
              <<Run(" ", 2), Run("a", 600)>>,
              <<Run("a", 1100)>>,
              <<Run(" ", 3)>> }

DispState(chunks, len, trunc) == [chunks |-> chunks, len |-> len, trunc |-> trunc]

\* a variant of textDisp that keeps the whole chunk, however long
textDispNoSlice(v, t, chunks, len, trunc) ==
    IF t = <<>> THEN DispState(chunks, len, trunc)
    ELSE DispState(Append(chunks, t), len + TextLen(t), trunc)

\* the text handler inside a <display-name> of the current channel
textDisp(v, t, chunks, len, trunc) ==
    LET cap == MAX_NAME_CHARS(v)
        remain == cap - len
    IN  IF v = "p4"
        THEN IF t = <<>> \/ len >= cap THEN DispState(chunks, len, trunc)
             ELSE With(IF TextLen(t) > remain THEN Slice(t, remain) ELSE t, LAMBDA chunk :
                  DispState(Append(chunks, chunk), len + TextLen(chunk), trunc))
        ELSE IF t = <<>> \/ trunc THEN DispState(chunks, len, trunc)
             ELSE IF remain <= 0 THEN DispState(chunks, len, TRUE)
             ELSE With(Slice(t, cap), LAMBDA c1 :
                  With(IF TextLen(c1) > remain THEN Slice(c1, remain) ELSE c1, LAMBDA chunk :
                  DispState(IF chunk # <<>> THEN Append(chunks, chunk) ELSE chunks,
                            len + TextLen(chunk),
                            TextLen(c1) > remain)))

\* a document is inside a <channel> element
InitDisp ==
    /\ variant \in Variants
    /\ phase = "channel"
    /\ keepAll = FALSE /\ nsrc = 1 /\ nch = 1
    /\ cur = <<[id |-> <<"xew", ".", "mx">>, namesRaw |-> <<>>]>>
    /\ heap = <<>> /\ channels = <<>> /\ nameMap = <<>> /\ seen = {}
    /\ requireProgs = FALSE
    /\ cand = <<>> /\ res = NoRes /\ rec = NoRec /\ m3u = NoM3u /\ manual = NoManual
    /\ DispIdle /\ ProgIdle /\ RunIdle /\ RestIdle

\* opentag display-name
OpenDisplayName ==
    /\ phase = "channel"
    /\ ~inDisp
    /\ Len(dispNames) < MaxNamesPerCh
    /\ inDisp' = TRUE
    /\ dispChunks' = <<>>
    /\ dispLen' = 0
    /\ dispTruncated' = FALSE
    /\ UNCHANGED <<variant, phase, idxVars, matchVars, dispNames, progVars, runVars, restVars>>

\* text
TextEvent(t) ==
    /\ phase = "channel"
    /\ inDisp
    /\ Len(dispChunks) < MaxTexts
    /\ LET d == textDisp(variant, t, dispChunks, dispLen, dispTruncated)
       IN  /\ dispChunks' = d.chunks
           /\ dispLen' = d.len
           /\ dispTruncated' = d.trunc
    /\ UNCHANGED <<variant, phase, idxVars, matchVars, inDisp, dispNames, progVars, runVars, restVars>>

\* closetag display-name: the trimmed text joins the names of the channel
CloseDisplayNameText ==
    /\ phase = "channel"
    /\ inDisp
    /\ LET clean == Trim(Flatten(dispChunks))
       IN  dispNames' = IF clean # <<>> /\ (variant = "p3" \/ Len(dispNames) < MAX_NAMES_PER_CH)
                        THEN Append(dispNames, clean) ELSE dispNames
    /\ inDisp' = FALSE
    /\ dispChunks' = <<>>
    /\ dispLen' = 0
    /\ dispTruncated' = FALSE
    /\ UNCHANGED <<variant, phase, idxVars, matchVars, progVars, runVars, restVars>>

NextDisp ==
    \/ OpenDisplayName
    \/ \E t \in TextPool : TextEvent(t)
    \/ CloseDisplayNameText

SpecDisp == InitDisp /\ [][NextDisp]_vars

\* C10: whatever texts are delivered inside a display-name, the accumulated
\* length never exceeds the cap, and a recorded name is at most the cap long.
C10_DisplayNameCapped ==
    /\ dispLen <= MAX_NAME_CHARS(variant)
    /\ TextLen(Flatten(dispChunks)) <= MAX_NAME_CHARS(variant)
    /\ \A i \in DOMAIN dispNames : TextLen(dispNames[i]) <= MAX_NAME_CHARS(variant)

\* a display-name fed more than the cap was recorded, cut at the cap
C10_Witness ==
    \E i \in DOMAIN dispNames : TextLen(dispNames[i]) = MAX_NAME_CHARS(variant)

-----------------------------------------------------------------------------
(* Programme capture.  Instants are counted in hours.  A timestamp attribute
   is [ok, wall, off]: whether it has the XMLTV shape, its wall-clock reading
   and its UTC offset; a missing attribute has ok = FALSE.  A parsed instant
   is <<t>>, null is <<>>. *)

PROGRAMS_HOURS_AHEAD == 48
EPG_PAST_HOURS == 0
EPG_WINDOW_HOURS == 48

Ts(wall, off) == [ok |-> TRUE, wall |-> wall, off |-> off]
BadTs == [ok |-> FALSE, wall |-> 0, off |-> 0]

\* a variant of parseXmltvToISO that reads a malformed attribute as the epoch
parseXmltvLenient(a) == IF a.ok THEN <<a.wall - a.off>> ELSE <<0>>

\* const t = utcMs - delta; null when the pattern does not match
parseXmltvToISO(a) == IF a.ok THEN <<a.wall - a.off>> ELSE <<>>

\* part_003 parseXmltvDate, part_004 xmltvToIso: called, not defined in the fragments
parseXmltvDate(a) == IF a.ok THEN <<a.wall - a.off>> ELSE <<>>

NowPool == {240}
StartPool == { BadTs, Ts(230, 0), Ts(250, -6), Ts(284, -6), Ts(500, 0) }
StopPool == { BadTs, Ts(250, 0), Ts(260, 0) }
CidPool == { <<"xew", ".", "mx">>, <<"zz", ".", "mx">> }
TitlePool == { <<"Noticiero">> }

NewProg(cid, st, en) == [channel_id |-> cid, start_ts |-> st, stop_ts |-> en, title |-> <<>>]

\* opentag programme: the programme the handler leaves in prog / curProg
openProgramme(v, cid, a, b, ing, clock, old) ==
    IF v = "mx"
    THEN IF ~ing THEN old
         ELSE With(parseXmltvToISO(a), LAMBDA st :
              With(parseXmltvToISO(b), LAMBDA en :
                  IF cid # <<>> /\ st # <<>> /\ en # <<>> /\ st[1] <= clock + PROGRAMS_HOURS_AHEAD
                  THEN <<NewProg(cid, st, en)>>
                  ELSE <<>>))
    ELSE <<NewProg(cid, parseXmltvDate(a), parseXmltvDate(b))>>

\* closetag programme: whether the programme p is emitted
emits(v, p, ch, clock) ==
    CASE v = "mx" -> TRUE
      [] v = "p3" -> /\ ChGet(ch, p.channel_id) # 0
                     /\ p.title # <<>>
                     /\ p.start_ts # <<>>
                     /\ p.start_ts[1] >= clock - EPG_PAST_HOURS
                     /\ p.start_ts[1] <= clock + EPG_WINDOW_HOURS
      [] OTHER -> /\ p.channel_id \in DOMAIN ch
                  /\ p.start_ts # <<>>
                  /\ p.stop_ts # <<>>

\* the index the programmes are read against: one kept channel
IndexOfOne(v) ==
    closeChannel(v, [id |-> <<"xew", ".", "mx">>, namesRaw |-> <<<<"Las", "Estrellas">>>>],
                 TRUE, <<>>, <<>>, <<>>)

InitProg ==
    /\ variant \in {"mx", "p3", "p4"}
    /\ phase = "programmes"
    /\ keepAll = TRUE /\ nsrc = 1 /\ nch = 1 /\ cur = NoCur
    /\ heap = IndexOfOne(variant).heap
    /\ channels = IndexOfOne(variant).channels
    /\ nameMap = IndexOfOne(variant).nameMap
    /\ seen = {} /\ requireProgs = FALSE
    /\ cand = <<>> /\ res = NoRes /\ rec = NoRec /\ m3u = NoM3u /\ manual = NoManual
    /\ DispIdle /\ RunIdle /\ RestIdle
    /\ now \in NowPool
    /\ ingest \in (IF variant = "mx" THEN BOOLEAN ELSE {TRUE})
    /\ last = NoEvent /\ prog = <<>> /\ programs = <<>> /\ dropped = <<>>

\* opentag programme with the attributes channel = cid, start = a, stop = b
OpenProgramme(cid, a, b) ==
    /\ phase = "programmes"
    /\ prog = <<>>
    /\ Len(programs) + Len(dropped) < MaxProgs
    /\ last' = [ev |-> "open", cid |-> cid, start |-> a, stop |-> b]
    /\ prog' = openProgramme(variant, cid, a, b, ingest, now, prog)
    /\ dropped' = IF (a.ok /\ b.ok) \/ (variant = "mx" /\ ~ingest) THEN dropped
                  ELSE Append(dropped, Len(programs))
    /\ UNCHANGED <<variant, phase, idxVars, matchVars, dispVars, now, ingest, programs, runVars, restVars>>

\* a <title> child with the text t, open tag to close tag
TitleElement(t) ==
    /\ phase = "programmes"
    /\ prog # <<>>
    /\ prog[1].title = <<>>
    /\ last' = [ev |-> "title"]
    /\ prog' = <<[prog[1] EXCEPT !.title = t]>>
    /\ UNCHANGED <<variant, phase, idxVars, matchVars, dispVars, now, ingest, programs,
                   dropped, runVars, restVars>>

\* closetag programme
CloseProgramme ==
    /\ phase = "programmes"
    /\ last.ev \in {"open", "title"}
    /\ last' = [ev |-> "close"]
    /\ prog' = <<>>
    /\ programs' = IF prog # <<>> /\ emits(variant, prog[1], channels, now)
                   THEN Append(programs, prog[1]) ELSE programs
    /\ heap' = IF variant = "p3" /\ prog # <<>> /\ ChGet(channels, prog[1].channel_id) # 0
               THEN [heap EXCEPT ![ChGet(channels, prog[1].channel_id)].hasProgs = TRUE]
               ELSE heap
    /\ UNCHANGED <<variant, phase, keepAll, nsrc, nch, cur, channels, nameMap, seen,
                   requireProgs, matchVars, dispVars, now, ingest, dropped, runVars, restVars>>

NextProg ==
    \/ \E cid \in CidPool, a \in StartPool, b \in StopPool : OpenProgramme(cid, a, b)
    \/ \E t \in TitlePool : TitleElement(t)
    \/ CloseProgramme

SpecProg == InitProg /\ [][NextProg]_vars


\* the window a revision is held to: part_004 has no lookahead setting, it is
\* held to ten days
Lookback(v) == IF v = "p3" THEN EPG_PAST_HOURS ELSE 0
Lookahead(v) ==
    CASE v = "mx" -> PROGRAMS_HOURS_AHEAD
      [] v = "p3" -> EPG_WINDOW_HOURS
      [] OTHER -> 240

\* C5: every emitted programme has a channel id present in the Channel Index
\* and a start instant inside [now - lookback, now + lookahead].
C5_EmittedInIndexAndWindow ==
    \A i \in DOMAIN programs :
        /\ programs[i].channel_id \in DOMAIN channels
        /\ programs[i].start_ts # <<>>
        /\ programs[i].start_ts[1] >= now - Lookback(variant)
        /\ programs[i].start_ts[1] <= now + Lookahead(variant)

\* C6: a programme that starts later than now + lookahead is never emitted.
C6_NoneBeyondLookahead ==
    \A i \in DOMAIN programs :
        programs[i].start_ts # <<>> => programs[i].start_ts[1] <= now + Lookahead(variant)

\* C7: every emitted programme has start < stop; none has a missing or
\* non-positive duration.
C7_PositiveDuration ==
    \A i \in DOMAIN programs :
        /\ programs[i].start_ts # <<>>
        /\ programs[i].stop_ts # <<>>
        /\ programs[i].start_ts[1] < programs[i].stop_ts[1]

-----------------------------------------------------------------------------
(* The run over the configured EPG sources, then matching and persistence *)

\* what may happen to one source
Outcomes == {"ok", "download", "gunzip", "syntax"}

\* where the run is after a source ended with outcome o.  A syntax error makes
\* the 'error' handler of the parser throw inside the 'data' listener of the
\* gunzip stream: no promise is rejected, the exception is uncaught and the
\* process ends.
afterSource(v, o) ==
    CASE o = "ok" -> "sources"
      [] o = "syntax" -> "aborted"
      [] o = "download" -> IF v = "p4" THEN "aborted" ELSE "sources"
      [] OTHER -> IF v = "mx" THEN "sources" ELSE "aborted"

InitRun ==
    /\ variant \in {"mx", "p4", "p5"}
    /\ phase = "run"
    /\ keepAll = FALSE /\ nsrc = 0 /\ nch = 0 /\ cur = NoCur
    /\ heap = <<>> /\ channels = <<>> /\ nameMap = <<>> /\ seen = {}
    /\ requireProgs = FALSE
    /\ cand = <<>> /\ res = NoRes /\ rec = NoRec /\ m3u = NoM3u /\ manual = NoManual
    /\ DispIdle /\ ProgIdle /\ RestIdle
    /\ pc = "sources"
    /\ urls \in 2..MaxUrls
    /\ srcLog = <<>>

\* one turn of the loop over the urls
ParseSource(o) ==
    /\ phase = "run"
    /\ pc = "sources"
    /\ Len(srcLog) < urls
    /\ srcLog' = Append(srcLog, o)
    /\ pc' = afterSource(variant, o)
    /\ UNCHANGED <<variant, phase, idxVars, matchVars, dispVars, progVars, urls, restVars>>

\* the loop ends: the index is returned to main
EndSources ==
    /\ phase = "run"
    /\ pc = "sources"
    /\ Len(srcLog) = urls
    /\ pc' = "matching"
    /\ UNCHANGED <<variant, phase, idxVars, matchVars, dispVars, progVars, urls, srcLog, restVars>>

\* main matches the scraped channels and builds the records
MatchAll ==
    /\ phase = "run"
    /\ pc = "matching"
    /\ pc' = "persist"
    /\ UNCHANGED <<variant, phase, idxVars, matchVars, dispVars, progVars, urls, srcLog, restVars>>

\* main writes the artifacts and upserts the rows
Persist ==
    /\ phase = "run"
    /\ pc = "persist"
    /\ pc' = "done"
    /\ UNCHANGED <<variant, phase, idxVars, matchVars, dispVars, progVars, urls, srcLog, restVars>>

NextRun ==
    \/ \E o \in Outcomes : ParseSource(o)
    \/ EndSources
    \/ MatchAll
    \/ Persist

SpecRun == InitRun /\ [][NextRun]_vars

\* C8: when one of several sources fails (syntax, download or decompression
\* error) the run does not terminate: every other source is still attempted
\* and the run goes on to matching and persistence.
C8_RunSurvivesSourceFailure ==
    /\ pc # "aborted"
    /\ pc \in {"matching", "persist", "done"} => Len(srcLog) = urls

-----------------------------------------------------------------------------
(* Programme free text: one field (title, sub-title or desc) of the programme
   being read, fed by text events and closed by its end tag.  The programme
   may hold the element several times. *)

MAX_TXT == 4000
MaxFieldElems == 2
MaxFieldTexts == 2

Blank == <<Run(" ", 1)>>

\* the texts a SAX text event may deliver inside a programme child
FreeTextPool == { <<Run("a", 1)>>,
                  <<Run("a", 2500)>>,
                  <<Run(" ", 1), Run("a", 4100)>>,
                  <<Run(" ", 3)>> }

\* part_003 capPush(obj, key, txt): the new value of obj[key]
capPush(old, txt) ==
    IF txt = <<>> THEN old
    ELSE With(MAX_TXT - TextLen(old), LAMBDA room :
         With(IF room > 0 THEN room ELSE 0, LAMBDA remain :
             IF remain <= 0 THEN old
             ELSE old \o (IF old # <<>> THEN Blank ELSE <<>>)
                      \o (IF TextLen(txt) > remain THEN Slice(txt, remain) ELSE txt)))

\* the text handler inside the child: <<new field, new buffer>>
textField(v, t, f, buf) ==
    CASE v = "p3" -> With(buf \o t, LAMBDA b :
                        <<f, IF TextLen(b) > MAX_TXT THEN Slice(b, MAX_TXT) ELSE b>>)
      [] v = "p4" -> With(Trim(t), LAMBDA txt :
                        IF txt = <<>> THEN <<f, buf>>
                        ELSE <<IF f # <<>> THEN f \o Blank \o txt ELSE txt, buf>>)
      [] OTHER -> <<f, buf \o t>>

\* the closetag handler of the child: <<new field, new buffer>>
closeField(v, f, buf) ==
    CASE v = "p3" -> <<capPush(f, Trim(buf)), <<>> >>
      [] v = "p4" -> <<f, buf>>
      [] OTHER -> With(Trim(buf), LAMBDA val : <<IF val # <<>> THEN val ELSE f, <<>> >>)

InitText ==
    /\ variant \in {"mx", "p3", "p4"}
    /\ phase = "programme"
    /\ keepAll = TRUE /\ nsrc = 1 /\ nch = 0 /\ cur = NoCur
    /\ heap = <<>> /\ channels = <<>> /\ nameMap = <<>> /\ seen = {}
    /\ requireProgs = FALSE
    /\ cand = <<>> /\ res = NoRes /\ rec = NoRec /\ m3u = NoM3u /\ manual = NoManual
    /\ DispIdle /\ ProgIdle /\ RunIdle /\ RestIdle

\* opentag of the child
OpenField ==
    /\ ~inTag
    /\ nField < MaxFieldElems
    /\ inTag' = TRUE
    /\ nTxt' = 0
    /\ textBuf' = IF variant = "mx" THEN <<>> ELSE textBuf
    /\ UNCHANGED <<field, nField, exceptText>>

\* text inside the child
FieldText(t) ==
    /\ inTag
    /\ nTxt < MaxFieldTexts
    /\ nTxt' = nTxt + 1
    /\ field' = textField(variant, t, field, textBuf)[1]
    /\ textBuf' = textField(variant, t, field, textBuf)[2]
    /\ UNCHANGED <<inTag, nField, exceptText>>

\* closetag of the child
CloseField ==
    /\ inTag
    /\ inTag' = FALSE
    /\ nField' = nField + 1
    /\ field' = closeField(variant, field, textBuf)[1]
    /\ textBuf' = closeField(variant, field, textBuf)[2]
    /\ UNCHANGED <<nTxt, exceptText>>

NextText ==
    \/ OpenField
    \/ \E t \in FreeTextPool : FieldText(t)
    \/ CloseField

SpecText == InitText /\ [][NextText]_vars

\* C11: the stored string of a programme free-text field never exceeds the
\* free-text cap, for any number and size of text events and any number of
\* repeated elements of the field.
C11_FreeTextCapped == TextLen(field) <= MAX_TXT

-----------------------------------------------------------------------------
(* Programme batches.  Programme records are numbered 1, 2, ... in the order
   the parser emits them.  An array object holds consecutive records: lo is
   the number of the record before its first, n its length.  `arrays` is the
   heap of array objects and `batch` the reference the accumulator variable
   holds (batch, progBatch, agg.programs).  A sink write is a flight: it
   holds a reference to the array it was given; the rows are serialised when
   the request is sent, at some point between the call and the response.
   Revisions: "mx", "p3", "p4" as above and
     "mc" : src/scripts/make-channels-xml.mjs (main). *)

BATCH_SIZE == 500
EPG_BATCH_SIZE == BATCH_SIZE
MaxRecs == 502
MaxFlights == 2

Arr(lo, n) == [lo |-> lo, n |-> n]

\* the write handed the array a
Flight(id, a) == [fid |-> id, arr |-> a, stage |-> "called", lo |-> 0, n |-> 0]

\* batch.push(prog)
push(as, b) == [as EXCEPT ![b].n = @ + 1]

\* the accumulator, its heap and the flights after the push-and-maybe-flush
\* of one record: [arrays, batch, flights]
afterPush(v, as, b, fl, id, r, hasSb) ==
    With(push(as, b), LAMBDA as1 :
        CASE v = "mx" -> [arrays |-> as1, batch |-> b, flights |-> fl]
          [] v = "p3" ->
               IF as1[b].n >= EPG_BATCH_SIZE
               THEN [arrays |-> Append(as1, Arr(r, 0)), batch |-> Len(as1) + 1,
                     flights |-> fl \cup {Flight(id, b)}]
               ELSE [arrays |-> as1, batch |-> b, flights |-> fl]
          [] v = "mc" ->
               IF as1[b].n >= BATCH_SIZE
               THEN [arrays |-> Append([as1 EXCEPT ![b] = Arr(r, 0)], as1[b]), batch |-> b,
                     flights |-> fl \cup {Flight(id, Len(as1) + 1)}]
               ELSE [arrays |-> as1, batch |-> b, flights |-> fl]
          [] OTHER ->
               IF as1[b].n >= BATCH_SIZE
               THEN IF hasSb
                    THEN [arrays |-> as1, batch |-> b, flights |-> fl \cup {Flight(id, b)}]
                    ELSE [arrays |-> Append(as1, Arr(r, 0)), batch |-> Len(as1) + 1,
                          flights |-> fl]
               ELSE [arrays |-> as1, batch |-> b, flights |-> fl])

\* flushBatch of part_004 up to its await
flushBatch(as, b, fl, id, r, hasSb) ==
    IF as[b].n = 0 THEN [arrays |-> as, batch |-> b, flights |-> fl]
    ELSE IF ~hasSb THEN [arrays |-> Append(as, Arr(r, 0)), batch |-> Len(as) + 1, flights |-> fl]
    ELSE [arrays |-> as, batch |-> b, flights |-> fl \cup {Flight(id, b)}]

InitBatch ==
    /\ variant \in {"mx", "p3", "p4", "mc"}
    /\ phase = "batches"
    /\ keepAll = TRUE /\ nsrc = 1 /\ nch = 0 /\ cur = NoCur
    /\ heap = <<>> /\ channels = <<>> /\ nameMap = <<>> /\ seen = {}
    /\ requireProgs = FALSE
    /\ cand = <<>> /\ res = NoRes /\ rec = NoRec /\ m3u = NoM3u /\ manual = NoManual
    /\ DispIdle /\ ProgIdle /\ RunIdle /\ TextIdle /\ PoolIdle /\ MasterIdle /\ ProbeIdle /\ LateIdle
    /\ recs = 0 /\ arrays = <<Arr(0, 0)>> /\ batch = 1 /\ flights = {} /\ nfid = 0
    /\ handed = <<>> /\ sink = <<>> /\ bpc = "parsing" /\ savePos = 0
    /\ sb \in (IF variant = "p4" THEN BOOLEAN ELSE {TRUE})

\* closetag programme of a programme that is emitted (mc: one turn of the
\* for-await loop, which is suspended while its upsert is awaited)
EmitProgramme ==
    /\ bpc = "parsing"
    /\ recs < MaxRecs
    /\ Cardinality(flights) < MaxFlights
    /\ variant = "mc" => flights = {}
    /\ recs' = recs + 1
    /\ LET a == afterPush(variant, arrays, batch, flights, nfid + 1, recs + 1, sb)
       IN  /\ arrays' = a.arrays
           /\ batch' = a.batch
           /\ flights' = a.flights
           /\ nfid' = IF a.flights = flights THEN nfid ELSE nfid + 1
    /\ UNCHANGED <<handed, sink, bpc, savePos, sb, exceptBatch>>

\* part_004: the end of a 'data' event, a full accumulator is flushed
ChunkEnd ==
    /\ variant = "p4"
    /\ bpc = "parsing"
    /\ arrays[batch].n >= BATCH_SIZE
    /\ Cardinality(flights) < MaxFlights
    /\ LET a == flushBatch(arrays, batch, flights, nfid + 1, recs, sb)
       IN  /\ arrays' = a.arrays
           /\ batch' = a.batch
           /\ flights' = a.flights
           /\ nfid' = IF a.flights = flights THEN nfid ELSE nfid + 1
    /\ UNCHANGED <<recs, handed, sink, bpc, savePos, sb, exceptBatch>>

\* the document ends: the rest of the accumulator is written; in
\* mx-scrape-and-match.mjs savePrograms starts
EndParse ==
    /\ bpc = "parsing"
    /\ variant = "mc" => flights = {}
    /\ Cardinality(flights) < MaxFlights
    /\ bpc' = IF variant = "mx" THEN "saving" ELSE "ended"
    /\ LET a == IF variant = "p4" THEN flushBatch(arrays, batch, flights, nfid + 1, recs, sb)
               ELSE IF variant \in {"p3", "mc"} /\ arrays[batch].n > 0
               THEN [arrays |-> arrays, batch |-> batch,
                     flights |-> flights \cup {Flight(nfid + 1, batch)}]
               ELSE [arrays |-> arrays, batch |-> batch, flights |-> flights]
       IN  /\ arrays' = a.arrays
           /\ batch' = a.batch
           /\ flights' = a.flights
           /\ nfid' = IF a.flights = flights THEN nfid ELSE nfid + 1
    /\ UNCHANGED <<recs, handed, sink, savePos, sb, exceptBatch>>

\* mx-scrape-and-match.mjs savePrograms: one turn of the loop over the slices
SaveSlice ==
    /\ variant = "mx"
    /\ bpc = "saving"
    /\ flights = {}
    /\ IF savePos < arrays[batch].n
       THEN /\ arrays' = Append(arrays, Arr(savePos,
                                IF arrays[batch].n - savePos < BATCH_SIZE
                                THEN arrays[batch].n - savePos ELSE BATCH_SIZE))
            /\ flights' = {Flight(nfid + 1, Len(arrays) + 1)}
            /\ nfid' = nfid + 1
            /\ savePos' = savePos + BATCH_SIZE
            /\ bpc' = bpc
       ELSE /\ bpc' = "ended"
            /\ UNCHANGED <<arrays, flights, nfid, savePos>>
    /\ UNCHANGED <<recs, batch, handed, sink, sb, exceptBatch>>

\* the request of a flight is sent: its rows are what the array holds now.
\* Requests are sent in the order of the calls.
SendFlight(f) ==
    /\ f \in flights
    /\ f.stage = "called"
    /\ \A g \in flights : g.stage = "called" => f.fid <= g.fid
    /\ flights' = (flights \ {f}) \cup
                  {[f EXCEPT !.stage = "sent", !.lo = arrays[f.arr].lo, !.n = arrays[f.arr].n]}
    /\ handed' = Append(handed, arrays[f.arr].n)
    /\ UNCHANGED <<recs, arrays, batch, nfid, sink, bpc, savePos, sb, exceptBatch>>

\* the sink answers; the caller of the write resumes
ReturnFlight(f, ok) ==
    /\ f \in flights
    /\ f.stage = "sent"
    /\ flights' = flights \ {f}
    /\ sink' = IF ok THEN Append(sink, Arr(f.lo, f.n)) ELSE sink
    /\ arrays' = IF variant = "p4" THEN Append(arrays, Arr(recs, 0)) ELSE arrays
    /\ batch' = IF variant = "p4" THEN Len(arrays) + 1 ELSE batch
    /\ bpc' = IF ok THEN bpc
              ELSE IF variant = "mc" THEN "aborted"
              ELSE IF variant = "mx" THEN "ended"
              ELSE bpc
    /\ UNCHANGED <<recs, nfid, handed, savePos, sb, exceptBatch>>

NextBatch ==
    \/ EmitProgramme
    \/ ChunkEnd
    \/ EndParse
    \/ SaveSlice
    \/ \E f \in flights : SendFlight(f)
    \/ \E f \in flights, ok \in BOOLEAN : ReturnFlight(f, ok)

SpecBatch == InitBatch /\ [][NextBatch]_vars

\* C12: while a flush is in flight no record is appended to the array being
\* written and no second flush is started on that same array.
C12_SingleWriterOfBatch ==
    [][\A f \in flights :
          /\ arrays'[f.arr] = arrays[f.arr]
          /\ \A g \in flights' : g.arr = f.arr => g.fid = f.fid]_vars

\* C13: the pending accumulator never holds more than the batch size, and
\* every batch handed over, except possibly the last, has exactly the batch size.
C13_FixedSizeBatches ==
    /\ arrays[batch].n <= BATCH_SIZE
    /\ \A i \in 1..(Len(handed) - 1) : handed[i] = BATCH_SIZE

-----------------------------------------------------------------------------
(* The probe pool of the ingestion coordinator (mx-scrape-and-match.mjs main
   and promiseAllWithConcurrency; pLimit of latam-iptvcat.mjs and
   mx-gatotv-all.mjs is the same function).  Items are numbered from 1; an
   invocation of the work function is in flight from its call to the moment
   its promise settles. *)

MaxLimit == 3

\* what the scraper found: channels with their stream urls
ScrapedPool == { << [channelName |-> <<"Azteca">>, streams |-> <<"u1", "u2">>],
                    [channelName |-> <<"Canal", "5">>, streams |-> <<"u3">>] >>,
                 << [channelName |-> <<"Azteca">>, streams |-> <<"u1">>],
                    [channelName |-> <<"Canal", "5">>, streams |-> <<"u1", "u2">>] >>,
                 << [channelName |-> <<"Azteca">>, streams |-> <<"u1", "u2", "u3", "u4">>] >> }

StreamUrls == {"u1", "u2", "u3", "u4"}

\* [...new Set(scraped.flatMap(ch => ch.streams.map(s => s.url)))]
allUrls(sc) == AddAllU(<<>>, Flatten([k \in DOMAIN sc |-> sc[k].streams]))

\* a variant that labels a result with the item at its completion rank
probeEntryByRank(its, idx, rank, ok) == [u |-> its[rank], ok |-> ok]

\* the work function of the probe pool: async (u) => ({ u, ok: await probeM3U8(u) })
probeEntry(its, idx, rank, ok) == [u |-> its[idx], ok |-> ok]

\* a variant whose worker does not wait for the work function
nextItemsNoAwait(i, len) == (i + 1)..len

\* worker: while (i < items.length) { const idx = i++; results[idx] = await asyncFn(...) }
\* the items a worker starts when it resumes with i items taken
nextItems(i, len) == IF i < len THEN {i + 1} ELSE {}

\* new Set(probe.filter(x => x.ok).map(x => x.u))
workingSetOf(rs) == {rs[k][1].u : k \in {j \in DOMAIN rs : rs[j] # <<>> /\ rs[j][1].ok}}

\* filtered, then one record per stream left: the stream_url of each record
recordUrls(sc, ws) ==
    Flatten([k \in DOMAIN sc |-> SelectSeq(sc[k].streams, LAMBDA u : u \in ws)])

InitPool ==
    /\ variant = "mx"
    /\ phase = "probing"
    /\ keepAll = FALSE /\ nsrc = 0 /\ nch = 0 /\ cur = NoCur
    /\ heap = <<>> /\ channels = <<>> /\ nameMap = <<>> /\ seen = {}
    /\ requireProgs = FALSE
    /\ cand = <<>> /\ res = NoRes /\ rec = NoRec /\ m3u = NoM3u /\ manual = NoManual
    /\ DispIdle /\ ProgIdle /\ RunIdle /\ TextIdle /\ BatchIdle /\ MasterIdle /\ ProbeIdle /\ LateIdle
    /\ scraped \in ScrapedPool
    /\ poolItems = allUrls(scraped)
    /\ okOf \in [SeqToSet(poolItems) -> BOOLEAN]
    /\ limit \in 1..MaxLimit
    /\ taken = 0 /\ inflight = {} /\ results = [k \in DOMAIN poolItems |-> <<>>]
    /\ doneOrder = <<>> /\ workingSet = {} /\ persisted = <<>> /\ ppc = "start"

\* Promise.all(Array(concurrency).fill(0).map(worker)): every worker runs to its first await
StartWorkers ==
    /\ ppc = "start"
    /\ ppc' = "running"
    /\ taken' = IF limit < Len(poolItems) THEN limit ELSE Len(poolItems)
    /\ inflight' = 1..taken'
    /\ UNCHANGED <<scraped, poolItems, okOf, limit, results, doneOrder, workingSet, persisted,
                   exceptPool>>

\* the probe of item idx settles; its worker stores the result and goes on
CompleteProbe(idx) ==
    /\ ppc = "running"
    /\ idx \in inflight
    /\ results' = [results EXCEPT
                      ![idx] = <<probeEntry(poolItems, idx, Len(doneOrder) + 1, okOf[poolItems[idx]])>>]
    /\ doneOrder' = Append(doneOrder, idx)
    /\ inflight' = (inflight \ {idx}) \cup nextItems(taken, Len(poolItems))
    /\ taken' = taken + Cardinality(nextItems(taken, Len(poolItems)))
    /\ UNCHANGED <<scraped, poolItems, okOf, limit, workingSet, persisted, ppc, exceptPool>>

\* a variant that resolves as soon as the last item has been taken
workersDoneNoWait(fl, tk, len) == tk = len

\* await Promise.all(workers): every worker has left its loop, which it does
\* when it resumes after its last await and finds i >= items.length
workersDone(fl, tk, len) == fl = {} /\ tk = len

\* every worker has returned: workingSet, filtered, records, saveStreams(records)
CollectWorking ==
    /\ ppc = "running"
    /\ workersDone(inflight, taken, Len(poolItems))
    /\ ppc' = "collected"
    /\ workingSet' = workingSetOf(results)
    /\ persisted' = recordUrls(scraped, workingSetOf(results))
    /\ UNCHANGED <<scraped, poolItems, okOf, limit, taken, inflight, results, doneOrder, exceptPool>>

NextPool ==
    \/ StartWorkers
    \/ \E idx \in inflight : CompleteProbe(idx)
    \/ CollectWorking

SpecPool == InitPool /\ [][NextPool]_vars

\* C14: a stream is persisted as working only if the probe of that same url
\* returned ok; the persisted urls are exactly the urls whose probe succeeded,
\* whatever the order in which the probes completed.
C14_WorkingByUrl ==
    ppc = "collected" =>
        /\ SeqToSet(persisted) = {u \in SeqToSet(poolItems) : okOf[u]}
        /\ \A k \in DOMAIN persisted :
              \E idx \in DOMAIN poolItems :
                  /\ poolItems[idx] = persisted[k]
                  /\ results[idx] = <<[u |-> persisted[k], ok |-> TRUE]>>

\* the probes completed out of order, one failed and one succeeded
C14_Witness ==
    /\ ppc = "collected"
    /\ persisted # <<>>
    /\ \E u \in SeqToSet(poolItems) : ~okOf[u]
    /\ \E k \in 1..(Len(doneOrder) - 1) : doneOrder[k] > doneOrder[k + 1]

\* C20: at every moment at most limit invocations of the work function are
\* in flight, whatever the order in which they complete.
C20_AtMostLimitInFlight ==
    /\ Cardinality(inflight) <= limit
    /\ inflight \subseteq 1..taken
    /\ taken <= Len(poolItems)

\* the pool is full, with items waiting, after a probe completed out of order
C20_Witness ==
    /\ Cardinality(inflight) = limit
    /\ limit > 1
    /\ taken < Len(poolItems)
    /\ doneOrder # <<>>
    /\ \E idx \in inflight : idx < doneOrder[1]

-----------------------------------------------------------------------------
(* bestFromMaster (latam-iptvcat.mjs, mx-gatotv-all.mjs).  A master playlist
   is a sequence of variant directives; the function reads its text.  A line
   of text is a sequence of lexemes: words, numbers and the marks ":" "," "="
   and the double quote.  A url is [abs, dir, file]: a URI line is absolute
   or relative to the directory of the master. *)

MaxVariants == 3

Url(dir, file) == [abs |-> TRUE, dir |-> dir, file |-> file]
Rel(file) == [abs |-> FALSE, dir |-> "", file |-> file]
NoUrl == [abs |-> FALSE, dir |-> "", file |-> ""]

Lx(s) == [s |-> s, n |-> 0, u |-> NoUrl]
Num(n) == [s |-> "digits", n |-> n, u |-> NoUrl]
UriLine(u) == [s |-> "uri", n |-> 0, u |-> u]
Quote == Lx("quote")

\* an attribute NAME=value or NAME="value"
Attr(k, v, q) == [k |-> k, v |-> v, q |-> q]

\* a directive #EXT-X-STREAM-INF:<attributes>, followed by the line uri
\* (<<>>: the next line is another tag, or there is none)
Variant(attrs, uri) == [attrs |-> attrs, uri |-> uri]

VariantPool ==
    { Variant(<<Attr("BANDWIDTH", <<Num(800000)>>, FALSE)>>, <<Rel("lo")>>),
      Variant(<<Attr("BANDWIDTH", <<Num(3000000)>>, FALSE),
                Attr("RESOLUTION", <<Lx("1920x1080")>>, FALSE)>>, <<Rel("hi")>>),
      Variant(<<Attr("BANDWIDTH", <<Num(1200000)>>, FALSE)>>, <<Url("cdn", "mid")>>),
      Variant(<<Attr("AUDIO", <<Lx("aud"), Lx(":"), Num(1)>>, TRUE),
                Attr("BANDWIDTH", <<Num(5000000)>>, FALSE)>>, <<Rel("top")>>),
      Variant(<<Attr("BANDWIDTH", <<Num(9000000)>>, FALSE)>>, <<>>) }

MasterPool == UNION { [1..n -> VariantPool] : n \in 1..MaxVariants }

BaseUrl == Url("origin", "master")

\* ---- the text of a master playlist ----
renderAttr(a) ==
    <<Lx(a.k), Lx("=")>> \o (IF a.q THEN <<Quote>> \o a.v \o <<Quote>> ELSE a.v)

RECURSIVE renderAttrs(_)
renderAttrs(as) ==
    IF as = <<>> THEN <<>>
    ELSE IF Len(as) = 1 THEN renderAttr(as[1])
    ELSE renderAttr(as[1]) \o <<Lx(",")>> \o renderAttrs(Tail(as))

\* the lines of one directive: the tag line, then the uri line or a comment
renderVariant(d) ==
    << <<Lx("#EXT-X-STREAM-INF"), Lx(":")>> \o renderAttrs(d.attrs),
       IF d.uri = <<>> THEN <<Lx("#EXT-X-ENDLIST")>> ELSE <<UriLine(d.uri[1])>> >>

renderMaster(ds) == << <<Lx("#EXTM3U")>> >> \o Flatten([k \in DOMAIN ds |-> renderVariant(ds[k])])

\* ---- String.prototype.split on a mark ----
RECURSIVE splitOn(_, _)
splitOn(line, mark) ==
    IF \A i \in DOMAIN line : line[i] # mark THEN <<line>>
    ELSE With(FirstIndex(line, mark), LAMBDA i :
             <<SubSeq(line, 1, i - 1)>> \o splitOn(SubSeq(line, i + 1, Len(line)), mark))

\* ---- bestFromMaster ----
\* .replace(/^"|"$/g, '')
stripQuotes(v) ==
    With(IF v # <<>> /\ Head(v) = Quote THEN Tail(v) ELSE v, LAMBDA w :
         IF w # <<>> /\ Last(w) = Quote THEN DropLast(w, 1) ELSE w)

\* the attribute object built by the reduce, read at the key BANDWIDTH
RECURSIVE bandwidthAttr(_, _)
bandwidthAttr(pieces, acc) ==
    IF pieces = <<>> THEN acc
    ELSE With(splitOn(Head(pieces), Lx("=")), LAMBDA kv :
             bandwidthAttr(Tail(pieces),
                           IF kv[1] = <<Lx("BANDWIDTH")>>
                           THEN stripQuotes(IF Len(kv) >= 2 THEN kv[2] ELSE <<>>)
                           ELSE acc))

RECURSIVE Pow10Above(_, _)
Pow10Above(n, p) == IF n < p THEN p ELSE Pow10Above(n, p * 10)

\* Number(String(v).replace(/[^0-9]/g, '')) || 0
RECURSIVE digitsOf(_, _)
digitsOf(v, acc) ==
    IF v = <<>> THEN acc
    ELSE IF Head(v).s = "digits" THEN digitsOf(Tail(v), acc * Pow10Above(Head(v).n, 10) + Head(v).n)
    ELSE digitsOf(Tail(v), acc)

\* bw of a directive line: (L.split(':')[1] || '').split(',') ...
bwOfLine(L) ==
    With(splitOn(L, Lx(":")), LAMBDA parts :
    With(IF Len(parts) >= 2 THEN parts[2] ELSE <<>>, LAMBDA list :
         digitsOf(bandwidthAttr(splitOn(list, Lx(",")), <<>>), 0)))

IsTagLine(l) == l # <<>> /\ Head(l).s \in {"#EXTM3U", "#EXT-X-STREAM-INF", "#EXT-X-ENDLIST"}

\* new URL(next, baseUrl).href
absolutize(base, u) == IF u.abs THEN u ELSE Url(base.dir, u.file)

\* the variants pushed by the loop over the lines, in order
RECURSIVE variantsOf(_, _, _)
variantsOf(base, lines, i) ==
    IF i > Len(lines) THEN <<>>
    ELSE With(IF i < Len(lines) THEN lines[i + 1] ELSE <<>>, LAMBDA next :
         (IF /\ lines[i] # <<>>
             /\ Head(lines[i]) = Lx("#EXT-X-STREAM-INF")
             /\ next # <<>>
             /\ ~IsTagLine(next)
          THEN <<[bw |-> bwOfLine(lines[i]), url |-> absolutize(base, Head(next).u)]>>
          ELSE <<>>) \o variantsOf(base, lines, i + 1))

\* variants.sort((a, b) => b.bw - a.bw)[0]: the first of the largest bw
firstOfMaxBw(vs) ==
    vs[CHOOSE i \in DOMAIN vs :
           /\ \A j \in DOMAIN vs : vs[j].bw <= vs[i].bw
           /\ \A j \in 1..(i - 1) : vs[j].bw < vs[i].bw]

bestFromMaster(base, lines) ==
    With(variantsOf(base, lines, 1), LAMBDA vs :
         IF vs = <<>> THEN NoUrl ELSE firstOfMaxBw(vs).url)

InitMaster ==
    /\ variant \in {"la", "ga"}
    /\ phase = "master"
    /\ keepAll = FALSE /\ nsrc = 0 /\ nch = 0 /\ cur = NoCur
    /\ heap = <<>> /\ channels = <<>> /\ nameMap = <<>> /\ seen = {}
    /\ requireProgs = FALSE
    /\ cand = <<>> /\ res = NoRes /\ rec = NoRec /\ m3u = NoM3u /\ manual = NoManual
    /\ DispIdle /\ ProgIdle /\ RunIdle /\ TextIdle /\ BatchIdle /\ PoolIdle /\ ProbeIdle /\ LateIdle
    /\ masterText \in MasterPool
    /\ bestUrl = <<>>

\* bestFromMaster(baseUrl, text) is called on the text of the playlist
ResolveMaster ==
    /\ phase = "master"
    /\ bestUrl = <<>>
    /\ bestUrl' = <<bestFromMaster(BaseUrl, renderMaster(masterText))>>
    /\ UNCHANGED <<masterText, exceptMaster>>

NextMaster == ResolveMaster

SpecMaster == InitMaster /\ [][NextMaster]_vars

\* the BANDWIDTH attribute of a directive
BandwidthOf(d) ==
    IF \E k \in DOMAIN d.attrs : d.attrs[k].k = "BANDWIDTH"
    THEN (d.attrs[CHOOSE k \in DOMAIN d.attrs : d.attrs[k].k = "BANDWIDTH"]).v[1].n
    ELSE 0

\* C16: bestFromMaster returns the url of a variant whose BANDWIDTH is maximal
\* among the directives followed by a URI line, resolved against the url of
\* the master; it returns null only when there is no such variant.
C16_BestIsMaxBandwidth ==
    bestUrl # <<>> =>
        LET withUri == {k \in DOMAIN masterText : masterText[k].uri # <<>>}
        IN  IF withUri = {} THEN bestUrl[1] = NoUrl
            ELSE \E k \in withUri :
                    /\ bestUrl[1] = absolutize(BaseUrl, masterText[k].uri[1])
                    /\ bestUrl[1].abs
                    /\ \A j \in withUri : BandwidthOf(masterText[j]) <= BandwidthOf(masterText[k])

-----------------------------------------------------------------------------
(* Stream probe: probeM3U8 (mx), probePlaylist of latam-iptvcat.mjs in its   *)
(* first (la1) and second (la) revision and of mx-gatotv-all.mjs (ga), and   *)
(* the record the caller of the probe keeps for the candidate                *)

\* what a url does when it is fetched: the fetch rejects (neterr), never
\* settles (hang), or answers: a non-2xx status (status), 200 with a page
\* (html), 200 with a page declared as mpegurl (ct), a media playlist, a master
ProbeKinds == {"neterr", "hang", "status", "html", "ct", "media", "master"}

\* a master playlist with two variants, and one whose directive has no URI line
PlainMaster ==
    << Variant(<<Attr("BANDWIDTH", <<Num(800000)>>, FALSE)>>, <<Rel("lo")>>),
       Variant(<<Attr("BANDWIDTH", <<Num(3000000)>>, FALSE)>>, <<Rel("hi")>> ) >>
BareMaster == << Variant(<<Attr("BANDWIDTH", <<Num(9000000)>>, FALSE)>>, <<>>) >>

\* what the code reads of the outcome of one fetch: fail when fetch or
\* r.text() rejected, ok = r.ok, sig = /#EXTM3U/.test(text),
\* inf = /#EXT-X-STREAM-INF/i.test(text), ct = the content type names mpegurl
Response(kind, ds) ==
    [ fail |-> kind \in {"neterr", "abort"},
      ok   |-> kind \in {"html", "ct", "media", "master"},
      sig  |-> kind \in {"status", "media", "master"},
      inf  |-> kind = "master",
      ct   |-> kind \in {"ct", "media", "master"},
      ds   |-> IF kind = "master" THEN ds ELSE <<>> ]

\* the candidate answers n.c (with the directives n.body), any other url n.v
serve(n, url) ==
    IF url = BaseUrl THEN Response(n.c, n.body) ELSE Response(n.v, PlainMaster)
kindOf(n, url) == IF url = BaseUrl THEN n.c ELSE n.v

NoBody == [inf |-> FALSE, ds |-> <<>>]
Done(ok, url, body) == [next |-> "done", ok |-> ok, url |-> url, body |-> body]
Fetch(url) == [next |-> "fetch", ok |-> FALSE, url |-> url, body |-> NoBody]

\* bestFromMaster(url, txt) || url
orUrl(best, url) == IF best = NoUrl THEN url ELSE best

\* what the probe does once the fetch of the candidate has settled
afterFirst(v, url, r) ==
    CASE v = "mx" -> Done(~r.fail /\ r.ok /\ r.sig, url, NoBody)
      [] v = "la1" ->
            IF ~r.fail /\ r.ok /\ r.sig
            THEN Done(TRUE, url, [inf |-> r.inf, ds |-> r.ds])
            ELSE Done(FALSE, url, NoBody)
      [] v = "la" ->
            IF ~r.fail /\ r.ok /\ r.sig
            THEN IF r.inf
                 THEN Fetch(orUrl(bestFromMaster(url, renderMaster(r.ds)), url))
                 ELSE Done(TRUE, url, NoBody)
            ELSE IF ~r.fail /\ r.ok /\ r.ct THEN Done(TRUE, url, NoBody)
            ELSE Done(FALSE, url, NoBody)
      [] v = "ga" ->
            IF r.fail \/ ~r.ok THEN Done(FALSE, url, NoBody)
            ELSE IF r.inf
                 THEN Fetch(orUrl(bestFromMaster(url, renderMaster(r.ds)), url))
                 ELSE Done(r.sig, url, NoBody)

\* a probe that treats the answer of the variant as one more candidate
afterSecondFollow(v, best, r) == Fetch(best)

\* what the probe does once the fetch of the variant has settled
afterSecond(v, best, r) ==
    CASE v = "la" -> Done(~r.fail /\ r.ok /\ r.sig, best, NoBody)
      [] v = "ga" -> IF r.fail \/ ~r.ok THEN Done(FALSE, best, NoBody)
                     ELSE Done(r.sig, best, NoBody)

\* ga: fetchText makes an AbortController and a timer for each fetch
deadlinePerFetch(v) == v = "ga"

\* the record the callback of the pool returns for the candidate
reportOf(v, pr) ==
    IF v = "la1" /\ pr.ok /\ pr.body.inf
    THEN [ok |-> pr.ok,
          url |-> orUrl(bestFromMaster(pr.url, renderMaster(pr.body.ds)), pr.url)]
    ELSE [ok |-> pr.ok, url |-> pr.url]

Req(url, ctl) == [url |-> url, ctl |-> ctl, st |-> "pending"]
Timer == [armed |-> TRUE, fired |-> FALSE]
clearAll(tm) == [t \in DOMAIN tm |-> [tm[t] EXCEPT !.armed = FALSE]]

InitProbe ==
    /\ variant \in {"mx", "la1", "la", "ga"}
    /\ phase = "probe"
    /\ keepAll = FALSE /\ nsrc = 0 /\ nch = 0 /\ cur = NoCur
    /\ heap = <<>> /\ channels = <<>> /\ nameMap = <<>> /\ seen = {}
    /\ requireProgs = FALSE
    /\ cand = <<>> /\ res = NoRes /\ rec = NoRec /\ m3u = NoM3u /\ manual = NoManual
    /\ DispIdle /\ ProgIdle /\ RunIdle /\ TextIdle /\ BatchIdle /\ PoolIdle /\ MasterIdle /\ LateIdle
    /\ net \in { n \in [c : ProbeKinds, body : {<<>>, PlainMaster, BareMaster},
                        v : ProbeKinds] : (n.c = "master") = (n.body # <<>>) }
    /\ reqs = <<>> /\ timers = <<>> /\ prc = "ready"
    /\ pres = <<>> /\ reported = <<>>

\* the probe is called: the deadline is started and the candidate is requested
StartProbe ==
    /\ phase = "probe" /\ prc = "ready"
    /\ reqs' = <<Req(BaseUrl, 1)>>
    /\ timers' = <<Timer>>
    /\ prc' = "fetching"
    /\ UNCHANGED <<net, pres, reported, exceptProbe>>

\* request k has settled as st with outcome r, the deadlines being tm: the
\* probe runs on to its return or to its next fetch
Settle(k, r, st, tm) ==
    With(IF k = 1 THEN afterFirst(variant, reqs[k].url, r)
                  ELSE afterSecond(variant, reqs[k].url, r), LAMBDA step :
    With([reqs EXCEPT ![k].st = st], LAMBDA rq :
         IF step.next = "done"
         THEN /\ reqs' = rq
              /\ timers' = clearAll(tm)
              /\ pres' = <<[ok |-> step.ok, url |-> step.url, body |-> step.body]>>
              /\ prc' = "returned"
         ELSE /\ IF deadlinePerFetch(variant)
                 THEN /\ timers' = Append(clearAll(tm), Timer)
                      /\ reqs' = Append(rq, Req(step.url, Len(tm) + 1))
                 ELSE /\ timers' = tm
                      /\ reqs' = Append(rq, Req(step.url, reqs[k].ctl))
              /\ UNCHANGED <<pres, prc>>))

\* the network settles the request in flight
AnswerRequest ==
    /\ phase = "probe" /\ prc = "fetching"
    /\ \E k \in DOMAIN reqs :
        /\ reqs[k].st = "pending"
        /\ kindOf(net, reqs[k].url) # "hang"
        /\ Settle(k, serve(net, reqs[k].url),
                  IF kindOf(net, reqs[k].url) = "neterr" THEN "failed" ELSE "answered",
                  timers)
    /\ UNCHANGED <<net, reported, exceptProbe>>

\* a timer runs out: ac.abort() rejects the fetch that carries its signal
DeadlineFires ==
    /\ phase = "probe" /\ prc = "fetching"
    /\ \E t \in DOMAIN timers :
        /\ timers[t].armed
        /\ \E k \in DOMAIN reqs :
            /\ reqs[k].st = "pending" /\ reqs[k].ctl = t
            /\ Settle(k, Response("abort", <<>>), "aborted",
                      [timers EXCEPT ![t] = [armed |-> FALSE, fired |-> TRUE]])
    /\ UNCHANGED <<net, reported, exceptProbe>>

\* the callback of the pool builds its record from what the probe returned
ReportProbe ==
    /\ phase = "probe" /\ prc = "returned"
    /\ reported' = <<reportOf(variant, pres[1])>>
    /\ prc' = "reported"
    /\ UNCHANGED <<net, reqs, timers, pres, exceptProbe>>

NextProbe == StartProbe \/ AnswerRequest \/ DeadlineFires \/ ReportProbe

SpecProbe == InitProbe /\ [][NextProbe]_vars

\* the request was answered with a success status and a body carrying #EXTM3U
FoundPlaylist(k) ==
    /\ reqs[k].st = "answered"
    /\ serve(net, reqs[k].url).ok
    /\ serve(net, reqs[k].url).sig

\* C15: when the candidate serves a master playlist and the record kept for it
\* is ok and names a variant url, that variant was requested and answered with
\* a success status and the #EXTM3U signature
C15_VariantFetchedBeforeOk ==
    (reported # <<>> /\ net.c = "master" /\ reported[1].ok
        /\ reported[1].url # BaseUrl)
    => \E k \in DOMAIN reqs : reqs[k].url = reported[1].url /\ FoundPlaylist(k)

C18_SingleDeadline ==
    /\ Len(timers) <= 1
    /\ \A k \in DOMAIN reqs : reqs[k].ctl = 1
    /\ (pres # <<>> /\ \E t \in DOMAIN timers : timers[t].fired) => ~pres[1].ok

\* the requests of a probe: at most two, the first for the candidate, a second
\* only after the candidate was answered with a master playlist, and nothing
\* after a request that failed or was aborted
AtMostTwoRequests ==
    /\ Len(reqs) <= 2
    /\ reqs # <<>> => reqs[1].url = BaseUrl
    /\ Len(reqs) >= 2 =>
          /\ reqs[1].st = "answered"
          /\ serve(net, BaseUrl).inf

\* C19 as stated: of the two requests the second is for the selected variant,
\* a url other than the candidate
C19_Original ==
    /\ AtMostTwoRequests
    /\ Len(reqs) >= 2 => reqs[2].url # BaseUrl

\* C19: at most two requests, no retry and no nested master followed; the
\* second request is for the variant bestFromMaster selected or, when the
\* master playlist lists no variant URI, for the candidate url once more
C19_AtMostTwoRequests ==
    /\ AtMostTwoRequests
    /\ Len(reqs) >= 2 =>
          reqs[2].url = orUrl(bestFromMaster(BaseUrl, renderMaster(net.body)), BaseUrl)

\* the variant answered with a master playlist of its own and the probe returned
C19_Witness ==
    /\ Len(reqs) = 2 /\ reqs[2].st = "answered" /\ net.v = "master"
    /\ reqs[2].url # BaseUrl /\ pres # <<>>

-----------------------------------------------------------------------------
(* Name variants of a channel with many display names: the closetag handlers *)
(* of the parsers on a channel that carries up to MaxCapNames display names, *)
(* in documents that repeat the channel id                                   *)

MaxCapNames == 25

\* the last word of the display names of the documents
CapWords ==
    << "w01", "w02", "w03", "w04", "w05", "w06", "w07", "w08", "w09",
       "w10", "w11", "w12", "w13", "w14", "w15", "w16", "w17", "w18",
       "w19", "w20", "w21", "w22", "w23", "w24", "w25", "w26", "w27",
       "w28" >>

\* the j-th display name of the ch-th channel element
NameNo(ch, j) == <<"Canal", IF ch = 1 THEN "Azteca" ELSE "Foro", ".", CapWords[j]>>

CapId == <<"xew", ".", "mx">>

InitCap ==
    /\ variant \in Variants
    /\ phase = "idle"
    /\ keepAll = FALSE /\ nsrc = 0 /\ nch = 0 /\ cur = NoCur
    /\ heap = <<>> /\ channels = <<>> /\ nameMap = <<>> /\ seen = {}
    /\ requireProgs = FALSE
    /\ cand = <<>> /\ res = NoRes /\ rec = NoRec /\ m3u = NoM3u /\ manual = NoManual
    /\ DispIdle /\ ProgIdle /\ RunIdle /\ RestIdle

\* closetag display-name of the next display name of the channel
CloseNextDisplayName ==
    /\ phase = "parsing"
    /\ cur # NoCur
    /\ Len(cur[1].namesRaw) < MaxCapNames
    /\ cur' = IF variant = "p3" \/ Len(cur[1].namesRaw) < MAX_NAMES_PER_CH
              THEN <<[cur[1] EXCEPT !.namesRaw = Append(@, NameNo(nch, Len(@) + 1))]>>
              ELSE cur
    /\ UNCHANGED <<variant, phase, keepAll, nsrc, nch, heap, channels, nameMap, seen,
                   requireProgs, matchVars, dispVars, progVars, runVars, restVars>>

NextCap ==
    \/ \E ka \in BOOLEAN : OpenSource(ka)
    \/ OpenChannel(CapId)
    \/ CloseNextDisplayName
    \/ CloseChannel
    \/ CloseSource

SpecCap == InitCap /\ [][NextCap]_vars

\* C26: the name-variant list of every entry of the Channel Index holds at
\* most MAX_VARIANTS (64) variants, whatever the number of display names of a
\* channel and of sources that repeat its id
C26_VariantListCapped ==
    \A r \in DOMAIN heap : Len(heap[r].names) <= MAX_VARIANTS

-----------------------------------------------------------------------------
(* The matcher on an index of two channels: findMatchByName and findMatch as *)
(* pure functions of the candidate name and of the index                     *)

\* display names of the two channels of the index
ScoreNamePool ==
    { <<"azteca", "fox", "sports", "premium", "1", "2", "7">>,
      <<"foro", "1", "7", "40">>,
      <<"azteca", "7">>,
      <<"milenio", "tv">> }

\* names of scraped channels
ScoreCandPool ==
    { <<"azteca", "fox", "sports", "premium", "1", "2">>,
      <<"foro", "1", "2">>,
      <<"foro", "1", "7", "2">>,
      <<"foro", "2">>,
      <<"1", "7">>,
      <<"azteca", "7">>,
      <<"adn">> }

ScoreId1 == <<"xew", ".", "mx">>
ScoreId2 == <<"xhdf", ".", "mx">>

\* the index after a source with <channel id=xew.mx> n1 and <channel id=xhdf.mx> n2
indexOfTwo(v, n1, n2) ==
    With(closeChannel(v, [id |-> ScoreId1, namesRaw |-> <<n1>>], v \in {"mx", "p4"},
                      <<>>, <<>>, <<>>), LAMBDA r1 :
         closeChannel(v, [id |-> ScoreId2, namesRaw |-> <<n2>>], v \in {"mx", "p4"},
                      r1.heap, r1.channels, r1.nameMap))

InitScore ==
    /\ variant \in {"mx", "p4", "p5"}
    /\ phase = "indexed"
    /\ keepAll = (variant \in {"mx", "p4"}) /\ nsrc = 1 /\ nch = 2 /\ cur = NoCur
    /\ \E n1 \in ScoreNamePool, n2 \in ScoreNamePool :
          /\ heap = indexOfTwo(variant, n1, n2).heap
          /\ channels = indexOfTwo(variant, n1, n2).channels
          /\ nameMap = indexOfTwo(variant, n1, n2).nameMap
    /\ seen = {} /\ requireProgs = FALSE
    /\ cand = <<>> /\ res = NoRes /\ rec = NoRec /\ m3u = NoM3u /\ manual = NoManual
    /\ DispIdle /\ ProgIdle /\ RunIdle /\ RestIdle

NextScore == \E c \in ScoreCandPool : Match(c, "u1")

SpecScore == InitScore /\ [][NextScore]_vars

\* the score alone: between 0 and 1 whatever the method is called
ScoreInUnitInterval ==
    phase = "matched" => (res.score[1] >= 0 /\ res.score[1] <= res.score[2])

\* C27: the score of every Match Result lies between 0 and 1 and its method
\* is one of exact, anchor, subset, fuzzy, none
C27_ScoreAndMethodInRange ==
    /\ ScoreInUnitInterval
    /\ phase = "matched" => res.method \in {"exact", "anchor", "subset", "fuzzy", "none"}

\* C28: a result of the fuzzy tier has a score of at least FUZZY_MIN: a
\* candidate that no earlier tier matched and whose best similarity is below
\* FUZZY_MIN gets no entry
C28_FuzzyAtLeastMin ==
    (phase = "matched" /\ res.method \notin {"exact", "anchor", "subset"} /\ res.entry # 0)
        => GePct(res.score, FUZZY_MIN_PCT)

\* the entries that hold every token of the candidate
Qualifying(v, c, nm, h) ==
    {r \in SeqToSet(entriesOf(nm)) : SeqToSet(tokensOf(v, c)) \subseteq h[r].tokenSet}

\* C29: the entry the subset tier returns holds every token of the candidate
\* and no entry that holds them all has a smaller token set
C29_SubsetIsSmallest ==
    (phase = "matched" /\ res.method = "subset") =>
        /\ res.entry \in Qualifying(variant, cand, nameMap, heap)
        /\ \A r \in Qualifying(variant, cand, nameMap, heap) :
              Cardinality(heap[res.entry].tokenSet) <= Cardinality(heap[r].tokenSet)

\* the subset tier answered although an entry earlier in the index holds every
\* token too, with a larger token set
C29_Witness ==
    /\ phase = "matched" /\ res.method = "subset"
    /\ \E r \in Qualifying(variant, cand, nameMap, heap) :
          /\ r < res.entry
          /\ Cardinality(heap[r].tokenSet) > Cardinality(heap[res.entry].tokenSet)

\* C30: a result without entry has method none and score 0, and a result of
\* method none has no entry
C30_NoneIsZero ==
    (phase = "matched" /\ (res.method = "none" \/ res.entry = 0)) =>
        /\ res.entry = 0
        /\ res.method = "none"
        /\ res.score[1] = 0

-----------------------------------------------------------------------------
(* Persistence: the save functions and the table they write.                 *)
(*   savePrograms  : mx-scrape-and-match.mjs 543-561, mx-gatotv.mjs 200-222  *)
(*   saveStreamsLa : latam-iptvcat.mjs 287-307                               *)
(*   saveRows      : part_005 383-408, saveStreams of part_004 344-358       *)
(*   saveStreamsMx : mx-scrape-and-match.mjs 508-541                         *)
(* The rows of a run are numbered 1..nrows and carry the number of the run   *)
(* as checked_at; a row number stands for the conflict key of the row.       *)

SAVE_BATCH == 500
MaxSaveRows == 1001
MaxRuns == 2

Savers == {"savePrograms", "saveStreamsLa", "saveRows", "saveStreamsMx"}
RowCounts == {1, SAVE_BATCH, SAVE_BATCH + 1, MaxSaveRows}

\* for (let i = 0; i < rows.length; i += BATCH) rows.slice(i, i + BATCH); the
\* single-call functions hand over the whole array
slicesOf(sv, n) ==
    IF sv \in {"savePrograms", "saveStreamsLa"}
    THEN [k \in 1..((n + SAVE_BATCH - 1) \div SAVE_BATCH) |->
             Arr((k - 1) * SAVE_BATCH + 1, Min2(SAVE_BATCH, n - (k - 1) * SAVE_BATCH))]
    ELSE <<Arr(1, n)>>

Seg(sl, stamp) == [lo |-> sl.lo, n |-> sl.n, stamp |-> stamp]
Holds(st, sl) == \E i \in DOMAIN st : st[i].lo = sl.lo /\ st[i].n = sl.n

\* an upsert that adds the rows whatever the table holds
upsertRowsAppend(st, sl, stamp) == Append(st, Seg(sl, stamp))

\* upsert(rows, { onConflict }) on a table with the constraint: a row whose key
\* is in the table replaces it, the others are added
upsertRows(st, sl, stamp) ==
    IF Holds(st, sl)
    THEN [i \in DOMAIN st |-> IF st[i].lo = sl.lo /\ st[i].n = sl.n
                              THEN Seg(sl, stamp) ELSE st[i]]
    ELSE Append(st, Seg(sl, stamp))

\* insert(rows)
insertRows(st, sl, stamp) == Append(st, Seg(sl, stamp))

\* the columns of the payload fl the table does not have, as the errors that
\* name them
missingColumns(sch, fl) ==
    (IF fl.tvg_id /\ ~sch.tvg_id THEN {"column_tvg_id"} ELSE {})
    \cup (IF fl.channel_name /\ ~sch.channel_name THEN {"column_channel_name"} ELSE {})

\* the error an upsert of the columns fl can come back with ("none": no error);
\* when two columns are missing the store names either of them
upsertErrors(sch, fl) ==
    IF missingColumns(sch, fl) # {} THEN missingColumns(sch, fl) \cup {"other"}
    ELSE {IF ~sch.unique THEN "no_unique" ELSE "none", "other"}

\* the error an insert can come back with
insertErrors(sch, st, sl) ==
    { IF sch.unique /\ Holds(st, sl) THEN "duplicate" ELSE "none", "other" }

Step(next, fl, warn) == [next |-> next, fields |-> fl, warn |-> warn]

\* what the function does with the error of an upsert made at stage pcv
afterUpsert(sv, pcv, err, fl) ==
    CASE sv = "savePrograms" ->
            IF err = "none" THEN Step("advance", fl, FALSE)
            ELSE IF err = "no_unique" THEN Step("insert", fl, FALSE)
            ELSE Step("break", fl, TRUE)
      [] sv = "saveStreamsLa" ->
            IF err = "none" THEN Step("advance", fl, FALSE) ELSE Step("break", fl, TRUE)
      [] sv = "saveRows" ->
            IF err = "none" THEN Step("advance", fl, FALSE) ELSE Step("insert", fl, FALSE)
      [] sv = "saveStreamsMx" ->
            IF pcv = "upsert" /\ err = "column_tvg_id"
            THEN Step("upsert2", [fl EXCEPT !.tvg_id = FALSE], FALSE)
            ELSE IF pcv \in {"upsert", "upsert2"} /\ err = "column_channel_name"
            THEN Step("upsert3", [fl EXCEPT !.channel_name = FALSE], FALSE)
            ELSE Step("advance", fl, err # "none")

\* what the function does with the error of the insert
afterInsert(sv, err) ==
    IF err = "none" THEN Step("advance", <<>>, FALSE)
    ELSE IF sv = "savePrograms" THEN Step("break", <<>>, TRUE)
    ELSE Step("advance", <<>>, TRUE)

\* the position of the function after the step st on slice b of len slices
pcAfter(st, b, len) ==
    CASE st.next = "advance" -> IF b < len THEN [spc |-> "upsert", bno |-> b + 1]
                                ELSE [spc |-> "done", bno |-> b]
      [] st.next = "break" -> [spc |-> "done", bno |-> b]
      [] OTHER -> [spc |-> st.next, bno |-> b]

InitSave ==
    /\ variant \in {"mx", "la", "p4", "p5"}
    /\ phase = "save"
    /\ keepAll = FALSE /\ nsrc = 0 /\ nch = 0 /\ cur = NoCur
    /\ heap = <<>> /\ channels = <<>> /\ nameMap = <<>> /\ seen = {}
    /\ requireProgs = FALSE
    /\ cand = <<>> /\ res = NoRes /\ rec = NoRec /\ m3u = NoM3u /\ manual = NoManual
    /\ DispIdle /\ ProgIdle /\ RunIdle
    /\ TextIdle /\ BatchIdle /\ PoolIdle /\ MasterIdle /\ ProbeIdle
    /\ FetchIdle /\ BuildIdle /\ PureIdle
    /\ saver \in CASE variant = "mx" -> {"savePrograms", "saveStreamsMx"}
                   [] variant = "la" -> {"saveStreamsLa"}
                   [] OTHER -> {"saveRows"}
    /\ schema \in [unique : BOOLEAN, tvg_id : BOOLEAN, channel_name : BOOLEAN]
    /\ saver # "saveStreamsMx" => (schema.tvg_id /\ schema.channel_name)
    /\ nrows \in RowCounts
    /\ store = <<>> /\ srun = 0 /\ bno = 0 /\ spc = "idle"
    /\ fields = [tvg_id |-> FALSE, channel_name |-> FALSE]
    /\ attempts = <<>> /\ warned = {}

\* main calls the save function with the rows of the run
StartSave ==
    /\ phase = "save" /\ spc \in {"idle", "done"}
    /\ srun < MaxRuns
    /\ srun' = srun + 1
    /\ bno' = 1
    /\ spc' = "upsert"
    /\ fields' = [tvg_id |-> saver = "saveStreamsMx", channel_name |-> saver = "saveStreamsMx"]
    /\ attempts' = Append(attempts, [k \in DOMAIN slicesOf(saver, nrows) |-> <<>>])
    /\ UNCHANGED <<saver, schema, store, nrows, warned, exceptSave>>

\* the awaited upsert of the slice comes back with error err
UpsertReturns(err) ==
    /\ phase = "save" /\ spc \in {"upsert", "upsert2", "upsert3"}
    /\ err \in upsertErrors(schema, fields)
    /\ With(slicesOf(saver, nrows), LAMBDA sls :
       With(afterUpsert(saver, spc, err, fields), LAMBDA st :
          /\ store' = IF err = "none" THEN upsertRows(store, sls[bno], srun) ELSE store
          /\ attempts' = [attempts EXCEPT ![srun][bno] =
                             Append(@, [op |-> "upsert", err |-> err])]
          /\ fields' = st.fields
          /\ warned' = IF st.warn THEN warned \cup {<<srun, bno>>} ELSE warned
          /\ spc' = pcAfter(st, bno, Len(sls)).spc
          /\ bno' = pcAfter(st, bno, Len(sls)).bno))
    /\ UNCHANGED <<saver, schema, nrows, srun, exceptSave>>

\* the awaited insert of the slice comes back with error err
InsertReturns(err) ==
    /\ phase = "save" /\ spc = "insert"
    /\ With(slicesOf(saver, nrows), LAMBDA sls :
       With(afterInsert(saver, err), LAMBDA st :
          /\ err \in insertErrors(schema, store, sls[bno])
          /\ store' = IF err = "none" THEN insertRows(store, sls[bno], srun) ELSE store
          /\ attempts' = [attempts EXCEPT ![srun][bno] =
                             Append(@, [op |-> "insert", err |-> err])]
          /\ warned' = IF st.warn THEN warned \cup {<<srun, bno>>} ELSE warned
          /\ spc' = pcAfter(st, bno, Len(sls)).spc
          /\ bno' = pcAfter(st, bno, Len(sls)).bno))
    /\ UNCHANGED <<saver, schema, nrows, srun, fields, exceptSave>>

DbErrors == {"none", "other", "no_unique", "duplicate", "column_tvg_id", "column_channel_name"}

NextSave ==
    \/ StartSave
    \/ \E err \in DbErrors : UpsertReturns(err)
    \/ \E err \in DbErrors : InsertReturns(err)

SpecSave == InitSave /\ [][NextSave]_vars

\* C21: for each slice an insert is made only straight after the upsert of
\* that slice failed for want of a unique constraint, at most once, and no
\* slice is the object of more than two write calls
C21_InsertOnlyAfterNoUnique ==
    \A r \in DOMAIN attempts : \A b \in DOMAIN attempts[r] :
        /\ Len(attempts[r][b]) <= 2
        /\ \A j \in DOMAIN attempts[r][b] :
              attempts[r][b][j].op = "insert" =>
                  /\ j = 2
                  /\ attempts[r][b][1].op = "upsert"
                  /\ attempts[r][b][1].err = "no_unique"

\* the last call made for the slice came back without error
Written(r, b) ==
    /\ attempts[r][b] # <<>>
    /\ attempts[r][b][Len(attempts[r][b])].err = "none"

\* C22: when the save function has returned, every slice of the rows handed to
\* it is written or was named as failed by a warning
C22_WrittenOrReported ==
    spc = "done" =>
        \A b \in DOMAIN attempts[srun] : Written(srun, b) \/ <<srun, b>> \in warned

\* both runs have written all their slices
WroteTwice ==
    /\ srun = 2 /\ spc = "done"
    /\ \A r \in 1..2 : \A b \in DOMAIN attempts[r] : Written(r, b)

\* the segments of the table that hold the rows of slice b
RowsOf(b) ==
    {i \in DOMAIN store : store[i].lo = slicesOf(saver, nrows)[b].lo}

\* C24 as stated: after two writes of the same rows the table holds each row
\* once, with the checked_at of the second write
C24_Original ==
    WroteTwice =>
        \A b \in DOMAIN attempts[2] :
            /\ Cardinality(RowsOf(b)) = 1
            /\ \A i \in RowsOf(b) : store[i].stamp = 2

\* C24: after two successful writes of the same rows, a table with the unique
\* constraint holds each row once, with the checked_at of the second write; a
\* table without the constraint, which only the insert fallback can write,
\* holds each row twice
C24_OneRowWhenUnique ==
    WroteTwice =>
        \A b \in DOMAIN attempts[2] :
            IF schema.unique
            THEN /\ Cardinality(RowsOf(b)) = 1
                 /\ \A i \in RowsOf(b) : store[i].stamp = 2
            ELSE /\ Cardinality(RowsOf(b)) = 2
                 /\ saver \in {"saveRows", "savePrograms"}

\* two runs of a stream writer on a table with the constraint
C24_Witness ==
    /\ WroteTwice /\ schema.unique
    /\ saver \in {"saveStreamsMx", "saveRows"}
    /\ \E i \in DOMAIN store : store[i].stamp = 2

-----------------------------------------------------------------------------
(* Downloads: retryFetch of mx-scrape-and-match.mjs (142-154), called for    *)
(* the playlist (207), the mapping (226) and each EPG url (334); the other   *)
(* revisions call fetch once (part_003:4, part_004:112, part_005:204).       *)
(* tries is the log of the download: each fetch with its outcome, each       *)
(* delay, and the return or the throw that ends it.                          *)

EPG_RETRIES == 3
EPG_RETRY_DELAY_MS == 2000

Downloads == {"epg", "m3u", "mapping"}
\* r.ok with a body, r.ok without a body, !r.ok, a rejected fetch
FetchOutcomes == {"ok", "nobody", "status", "error"}

\* the test the caller applies to the response: r.ok in retryFetch (146),
\* res.ok && res.body in the single-fetch revisions
Accepts(v, out) == out = "ok" \/ (v = "mx" /\ out = "nobody")

\* the retries argument of the download
retriesOf(v) == IF v = "mx" THEN EPG_RETRIES ELSE 1

FetchesIn(log) == {j \in DOMAIN log : log[j].ev = "fetch"}

\* a download that waits and fetches again after every failure
afterAttemptEndless(v, i, out) ==
    IF Accepts(v, out) THEN "return" ELSE "delay"

\* the body of the loop for attempt i (from 0) whose fetch had the outcome out:
\* return r; if (i === retries - 1) throw e; await delay(delayMs)
afterAttempt(v, i, out) ==
    IF Accepts(v, out) THEN "return"
    ELSE IF i = retriesOf(v) - 1 THEN "throw"
    ELSE "delay"

InitFetch ==
    /\ variant \in {"mx", "p3", "p4", "p5"}
    /\ phase = "fetch"
    /\ keepAll = FALSE /\ nsrc = 0 /\ nch = 0 /\ cur = NoCur
    /\ heap = <<>> /\ channels = <<>> /\ nameMap = <<>> /\ seen = {}
    /\ requireProgs = FALSE
    /\ cand = <<>> /\ res = NoRes /\ rec = NoRec /\ m3u = NoM3u /\ manual = NoManual
    /\ DispIdle /\ ProgIdle /\ RunIdle
    /\ TextIdle /\ BatchIdle /\ PoolIdle /\ MasterIdle /\ ProbeIdle
    /\ SaveIdle /\ BuildIdle /\ PureIdle
    /\ what \in IF variant = "mx" THEN Downloads ELSE {"epg"}
    /\ tries = <<>> /\ waits = 0 /\ fpc = "idle"

\* the caller starts the download: the first fetch is sent
StartFetch ==
    /\ phase = "fetch" /\ fpc = "idle"
    /\ fpc' = "fetch"
    /\ UNCHANGED <<what, tries, waits, exceptFetch>>

\* the awaited fetch settles: a success response, a response with a
\* non-success status, or a rejection
FetchSettles(out) ==
    /\ phase = "fetch" /\ fpc = "fetch"
    /\ With(Cardinality(FetchesIn(tries)), LAMBDA i :
       With(afterAttempt(variant, i, out), LAMBDA nx :
          /\ tries' = tries \o <<[ev |-> "fetch", out |-> out, no |-> i + 1]>>
                            \o (IF nx = "delay" THEN <<>>
                                ELSE <<[ev |-> nx, out |-> out, no |-> i + 1]>>)
          /\ fpc' = CASE nx = "return" -> "returned"
                      [] nx = "throw" -> "thrown"
                      [] OTHER -> "delay"
          /\ waits' = IF nx = "delay" THEN waits + EPG_RETRY_DELAY_MS ELSE waits))
    /\ UNCHANGED <<what, exceptFetch>>

\* the awaited delay ends: the loop goes to the next attempt
DelayEnds ==
    /\ phase = "fetch" /\ fpc = "delay"
    /\ tries' = Append(tries, [ev |-> "delay", out |-> "", no |-> Cardinality(FetchesIn(tries))])
    /\ fpc' = "fetch"
    /\ UNCHANGED <<what, waits, exceptFetch>>

NextFetch ==
    \/ StartFetch
    \/ \E out \in FetchOutcomes : FetchSettles(out)
    \/ DelayEnds

SpecFetch == InitFetch /\ [][NextFetch]_vars

-----------------------------------------------------------------------------
(* Record building: from the probed candidates to the rows handed to the     *)
(* store (mx-scrape-and-match.mjs 583-627, part_005 423-456, first revision  *)
(* of latam-iptvcat.mjs 395-430). survivors is the list of probed            *)
(* candidates, each a stream of a scraped channel with the verdict of its    *)
(* probe; built is the list of records.                                      *)

BuildNames(v) ==
    IF v = "la1" THEN {<<"Azteca">>, <<"AZTECA">>, <<>>}
    ELSE {<<"adn">>, <<"azteca", "7">>}
BuildScores(v) == IF v = "la1" THEN {100, 150} ELSE {100}

Probed(nm, pg, u, ok, sc) == [name |-> nm, page |-> pg, url |-> u, ok |-> ok, score |-> sc]

\* (p.name && p.name.trim().toLowerCase()) || `page:${p.page}`
bestKeyOf(p) ==
    IF p.name # <<>> THEN <<"name", [i \in DOMAIN p.name |-> Lower(p.name[i])]>>
    ELSE <<"page", p.page>>

\* one step of the loop over probed: skip a failed probe, keep the first probe
\* of a key, replace it by a probe of strictly higher score
bestStep(acc, p) ==
    IF ~p.ok THEN acc
    ELSE IF \E j \in DOMAIN acc : bestKeyOf(acc[j]) = bestKeyOf(p)
    THEN [j \in DOMAIN acc |->
             IF bestKeyOf(acc[j]) = bestKeyOf(p) /\ p.score > acc[j].score THEN p ELSE acc[j]]
    ELSE Append(acc, p)

RECURSIVE bestByKey(_, _)
\* [...bestByKey.values()] after the loop over ps
bestByKey(acc, ps) ==
    IF ps = <<>> THEN acc ELSE bestByKey(bestStep(acc, Head(ps)), Tail(ps))

\* best.map(b => ({ stream_url: b.url, channel_name: b.name || null, ... })):
\* the row has no EPG field
recordLa(b) ==
    [stream_url |-> b.url, channel_guess |-> b.name, tvg_id |-> <<>>,
     epg_channel_id |-> <<>>, epg_display_name |-> <<>>, working |-> TRUE,
     channel_name |-> b.name, entry |-> 0, method |-> "none"]

\* records after the loop over filtered and the streams of each channel
recordsOf(v, ps, mu, man, nm, h) ==
    IF v = "la1"
    THEN With(bestByKey(<<>>, ps), LAMBDA bs : [k \in DOMAIN bs |-> recordLa(bs[k])])
    ELSE With(SelectSeq(ps, LAMBDA p : p.ok), LAMBDA fs :
            [k \in DOMAIN fs |->
                IF v = "mx" THEN recordMx(fs[k].name, fs[k].url, mu, man, nm, h)
                ELSE recordP(v, fs[k].name, fs[k].url, nm, h)])

InitBuild ==
    /\ variant \in {"mx", "p5", "la1"}
    /\ phase = "probed"
    /\ keepAll = (variant = "mx") /\ nsrc = 1 /\ cur = NoCur
    /\ IF variant = "la1"
       THEN nch = 0 /\ heap = <<>> /\ channels = <<>> /\ nameMap = <<>>
       ELSE /\ nch = 2
            /\ heap = indexOfTwo(variant, <<"azteca", "7">>, <<"milenio", "tv">>).heap
            /\ channels = indexOfTwo(variant, <<"azteca", "7">>, <<"milenio", "tv">>).channels
            /\ nameMap = indexOfTwo(variant, <<"azteca", "7">>, <<"milenio", "tv">>).nameMap
    /\ seen = {} /\ requireProgs = FALSE
    /\ cand = <<>> /\ res = NoRes /\ rec = NoRec
    /\ \E inp \in (IF variant = "mx" THEN InputPool ELSE {[items |-> <<>>, rows |-> <<>>]}) :
          m3u = buildM3ULookups(inp.items) /\ manual = loadManualMap(inp.rows)
    /\ DispIdle /\ ProgIdle /\ RunIdle
    /\ TextIdle /\ BatchIdle /\ PoolIdle /\ MasterIdle /\ ProbeIdle
    /\ SaveIdle /\ FetchIdle /\ PureIdle
    /\ \E n1 \in BuildNames(variant), n2 \in BuildNames(variant),
          o1 \in BOOLEAN, o2 \in BOOLEAN,
          s1 \in BuildScores(variant), s2 \in BuildScores(variant) :
          survivors = <<Probed(n1, "pg1", "u1", o1, s1), Probed(n2, "pg2", "u2", o2, s2)>>
    /\ built = <<>>

\* main builds the records of the run
BuildRecords ==
    /\ phase = "probed"
    /\ phase' = "built"
    /\ built' = recordsOf(variant, survivors, m3u, manual, nameMap, heap)
    /\ UNCHANGED <<variant, idxVars, matchVars, dispVars, progVars, runVars, textVars,
                   batchVars, poolVars, masterVars, probeVars, saveVars, fetchVars,
                   pureVars, survivors>>

NextBuild == BuildRecords

SpecBuild == InitBuild /\ [][NextBuild]_vars

\* the records built for candidate k
RecordsFor(k) ==
    {i \in DOMAIN built : built[i].stream_url = survivors[k].url}

\* every candidate whose probe passed has exactly one record
OneRecordEach ==
    phase = "built" =>
        \A k \in DOMAIN survivors : survivors[k].ok => Cardinality(RecordsFor(k)) = 1

\* a record without a matched entry has no epg_channel_id and no epg_display_name
UnmatchedHasNoEpg ==
    phase = "built" =>
        \A i \in DOMAIN built :
            built[i].entry = 0 =>
                (built[i].epg_channel_id = <<>> /\ built[i].epg_display_name = <<>>)

\* C23: once the records are built, every candidate whose probe passed has
\* exactly one record, and a record whose candidate matched no entry has
\* neither epg_channel_id nor epg_display_name
C23_OneRecordPerSurvivor == OneRecordEach /\ UnmatchedHasNoEpg

-----------------------------------------------------------------------------
(* Further properties of the save functions                                  *)

\* the calls made for the single batch of the current run of saveStreams
CallsOfRun == attempts[srun][1]

\* C40: saveStreams of mx-scrape-and-match.mjs sends at most three upserts,
\* and on a table without the tvg_id and channel_name columns, when every
\* error it gets names a missing column, its last upsert sends neither column
C40_EndsWithoutMissingColumns ==
    (saver = "saveStreamsMx" /\ srun >= 1) =>
        /\ Len(CallsOfRun) <= 3
        /\ (/\ spc = "done"
            /\ ~schema.tvg_id /\ ~schema.channel_name
            /\ \A j \in DOMAIN CallsOfRun : CallsOfRun[j].err # "other")
           => (~fields.tvg_id /\ ~fields.channel_name)

\* the half of C40 about the number of upserts
AtMostThreeUpserts ==
    (saver = "saveStreamsMx" /\ srun >= 1) =>
        (Len(CallsOfRun) <= 3 /\ \A j \in DOMAIN CallsOfRun : CallsOfRun[j].op = "upsert")

-----------------------------------------------------------------------------
(* Further properties of the records of mx-scrape-and-match.mjs              *)

\* C39: a record with method manual-map carries the index entry whose id is
\* the id the manual mapping holds for its candidate
C39_ManualMapCarriesMappedEntry ==
    (phase = "matched" /\ variant = "mx" /\ rec.method = "manual-map") =>
        (rec.entry # 0 /\ heap[rec.entry].id = ManualIdOf(cand))

-----------------------------------------------------------------------------
(* Further properties of the matcher                                         *)

\* C37: a candidate whose name has no token is matched to no entry: the
\* result of the matcher for it has method none and no entry
C37_EmptyNameUnmatched ==
    (phase = "matched" /\ tokensOf(variant, cand) = <<>>) =>
        (res.entry = 0 /\ res.method = "none")

-----------------------------------------------------------------------------
(* Timestamps as text: parseXmltvToISO of mx-scrape-and-match.mjs (167-180)  *)
(* and parseXmlTvDate of make-channels-xml.mjs (140-156, variant "mk").      *)
(* A string is its parts in order: a run of digits (14 of them give day,     *)
(* hour and minute of a fixed month; seconds are 00), blanks, an offset      *)
(* text, and what follows.  Instants are minutes since the month began.      *)

OffsetTexts == {"", "+0000", "-0300", "+0530", "Z"}
TsStrings ==
    [digits : {13, 14}, D : {1, 31}, h : {0, 23}, mi : {0, 59},
     sp : {0, 1, 2}, off : OffsetTexts, rest : {"", "x"}]

\* off.startsWith('-') ? -1 : 1
offSign(off) == IF off = "-0300" THEN -1 ELSE 1
\* +off.slice(1,3)
offHH(off) == CASE off = "-0300" -> 3 [] off = "+0530" -> 5 [] OTHER -> 0
\* +off.slice(3,5)
offMM(off) == IF off = "+0530" THEN 30 ELSE 0

\* Date.UTC(+Y, +Mo-1, +D, +h, +mi, +se), in minutes since the month began
wallOf(s) == ((s.D - 1) * 24 + s.h) * 60 + s.mi

\* the text [+-]\d{4} stands where the optional group of the pattern looks
NumericOffset(s) == s.off \in {"+0000", "-0300", "+0530"}

At(t) == <<"at", t>>
Null == <<"null">>

\* /^(\d{4})(\d{2})(\d{2})(\d{2})(\d{2})(\d{2})(?:\s*([+-]\d{4}))?$/ and
\* utcMs - sign * (hh*60 + mm) * 60 * 1000
parseXmltvToISOText(s) ==
    IF s.digits = 14 /\ s.rest = "" /\ NumericOffset(s)
    THEN At(wallOf(s) - offSign(s.off) * (offHH(s.off) * 60 + offMM(s.off)))
    ELSE IF s.digits = 14 /\ s.rest = "" /\ s.off = "" /\ s.sp = 0
    THEN At(wallOf(s))
    ELSE Null

\* withColonOffset: "Z" stays, +HHMM becomes +HH:MM; new Date(iso) then
\* subtracts the offset
withColonOffset(off) ==
    IF off = "Z" THEN 0 ELSE offSign(off) * (offHH(off) * 60 + offMM(off))

\* /^(\d{4})(\d{2})(\d{2})(\d{2})(\d{2})(\d{2})(?:\s*([+-]\d{4}|Z))?/ : the
\* pattern has no $, so what follows the match is not looked at
parseXmlTvDate(s) ==
    IF s.digits # 14 THEN Null
    ELSE IF s.off # "" THEN At(wallOf(s) - withColonOffset(s.off))
    ELSE At(wallOf(s))

InitTime ==
    /\ variant \in {"mx", "mk"}
    /\ phase = "time"
    /\ keepAll = FALSE /\ nsrc = 0 /\ nch = 0 /\ cur = NoCur
    /\ heap = <<>> /\ channels = <<>> /\ nameMap = <<>> /\ seen = {}
    /\ requireProgs = FALSE
    /\ cand = <<>> /\ res = NoRes /\ rec = NoRec /\ m3u = NoM3u /\ manual = NoManual
    /\ DispIdle /\ ProgIdle /\ RunIdle
    /\ TextIdle /\ BatchIdle /\ PoolIdle /\ MasterIdle /\ ProbeIdle
    /\ SaveIdle /\ FetchIdle /\ BuildIdle
    /\ arg \in TsStrings
    /\ ret = <<>>

\* the parser is applied to the text of a start or stop attribute
ParseTimestamp ==
    /\ phase = "time" /\ ret = <<>>
    /\ ret' = IF variant = "mx" THEN parseXmltvToISOText(arg) ELSE parseXmlTvDate(arg)
    /\ UNCHANGED <<arg, exceptPure>>

NextTime == ParseTimestamp

SpecTime == InitTime /\ [][NextTime]_vars

\* the string is YYYYMMDDHHMMSS, then nothing or blanks and +HHMM or -HHMM
TimestampForm(s) ==
    /\ s.digits = 14 /\ s.rest = ""
    /\ NumericOffset(s) \/ (s.off = "" /\ s.sp = 0)

\* C31: the instant parsed from a string of the timestamp form is the wall
\* clock reading as UTC minus the signed offset; any other string gives no
\* instant
C31_InstantIsWallMinusOffset ==
    (phase = "time" /\ ret # <<>>) =>
        IF TimestampForm(arg)
        THEN ret = At(wallOf(arg) - offSign(arg.off) * (offHH(arg.off) * 60 + offMM(arg.off)))
        ELSE ret = Null

-----------------------------------------------------------------------------
(* The normalizer on pairs of spellings of one name: tokensOf and keyOf of   *)
(* mx-scrape-and-match.mjs (41-78) and of the other revisions.  A lexeme     *)
(* sequence already stands for every spacing of its words, so a second       *)
(* spelling differs by the case of its letters, by accents on its words, or  *)
(* by a country tag at its end.                                              *)

BaseNames ==
    { <<"azteca", "7">>, <<"canal", "siete">>, <<"foro", "tv">>,
      <<"las", "estrellas">>, <<"teleformula">> }

CountryTags ==
    { <<>>, <<"MX">>, <<".", "mx">>, <<"(", "MX", ")">>, <<"Me'xico">>, <<"usa">> }

\* the word with capital letters
Upper(w) ==
    CASE w = "azteca" -> "AZTECA"
      [] w = "canal" -> "Canal"
      [] w = "foro" -> "Foro"
      [] w = "las" -> "Las"
      [] w = "estrellas" -> "Estrellas"
      [] OTHER -> w

\* the word with an accent on a vowel
Accented(w) ==
    CASE w = "siete" -> "sie'te"
      [] w = "teleformula" -> "telefo'rmula"
      [] OTHER -> w

\* another spelling of the name nm
Respell(nm, up, acc, tag) ==
    [i \in DOMAIN nm |-> With(IF acc THEN Accented(nm[i]) ELSE nm[i], LAMBDA w :
                              IF up THEN Upper(w) ELSE w)] \o tag

InitNorm ==
    /\ variant \in Variants
    /\ phase = "norm"
    /\ keepAll = FALSE /\ nsrc = 0 /\ nch = 0 /\ cur = NoCur
    /\ heap = <<>> /\ channels = <<>> /\ nameMap = <<>> /\ seen = {}
    /\ requireProgs = FALSE
    /\ cand = <<>> /\ res = NoRes /\ rec = NoRec /\ m3u = NoM3u /\ manual = NoManual
    /\ DispIdle /\ ProgIdle /\ RunIdle
    /\ TextIdle /\ BatchIdle /\ PoolIdle /\ MasterIdle /\ ProbeIdle
    /\ SaveIdle /\ FetchIdle /\ BuildIdle
    /\ \E nm \in BaseNames, up \in BOOLEAN, acc \in BOOLEAN, tag \in CountryTags :
          arg = [a |-> nm, b |-> Respell(nm, up, acc, tag), up |-> up, acc |-> acc, tag |-> tag]
    /\ ret = <<>>

\* both spellings are normalized
NormalizeBoth ==
    /\ phase = "norm" /\ ret = <<>>
    /\ ret' = << [key |-> keyOf(variant, arg.a), tokens |-> tokensOf(variant, arg.a)],
                 [key |-> keyOf(variant, arg.b), tokens |-> tokensOf(variant, arg.b)] >>
    /\ UNCHANGED <<arg, exceptPure>>

NextNorm == NormalizeBoth

SpecNorm == InitNorm /\ [][NextNorm]_vars

\* C32: two spellings of a name that differ by case, accents or a trailing
\* country tag have the same key and the same set of tokens
C32_SameKeyForSpellings ==
    (phase = "norm" /\ ret # <<>>) =>
        /\ ret[1].key = ret[2].key
        /\ SeqToSet(ret[1].tokens) = SeqToSet(ret[2].tokens)

-----------------------------------------------------------------------------
(* The schedule scrapers: materializeDay and clamp24h of mx-gatotv.mjs       *)
(* (151-191), mx-gatotv-all.mjs (369-377) and latam-iptvcat.mjs (873-883).   *)
(* Instants are minutes since the local midnight of today; the zone offset   *)
(* is the same for every instant and is left out.                            *)

CLAMP_HOURS == 24
DayMinutes == 1440
NoStop == 0 - 1

LocalStarts == {0, 570, 1320}
LocalStops == {NoStop, 60, 600}
ClampNows == {600, 1380}

Row(st, sp) == [startLocal |-> st, stopLocal |-> sp]

\* parseLocalToUTC(localISO, timeStr, tz): the instant of a local time of the day
parseLocalToUTC(day, t) == day + t

\* materializeDay: the spans of the rows of a day; the stop is the stop of
\* the row, else the start of the next row, else start + 60; a stop not after
\* the start becomes start + 30
materializeDay(rows, day) ==
    [i \in DOMAIN rows |->
        With(parseLocalToUTC(day, rows[i].startLocal), LAMBDA start :
        With(IF rows[i].stopLocal # NoStop THEN parseLocalToUTC(day, rows[i].stopLocal)
             ELSE IF i < Len(rows) THEN parseLocalToUTC(day, rows[i + 1].startLocal)
             ELSE start + 60, LAMBDA stop :
            [start_ts |-> start, stop_ts |-> IF stop <= start THEN start + 30 ELSE stop]))]

\* clamp24h(programs, nowUTC, hours)
clamp24h(progs, nowUTC, hours) ==
    With(nowUTC + hours * 60, LAMBDA end :
        [i \in DOMAIN SelectSeq(progs, LAMBDA p : p.start_ts < end) |->
            With(SelectSeq(progs, LAMBDA p : p.start_ts < end)[i], LAMBDA p :
                [p EXCEPT !.stop_ts = IF p.stop_ts > end THEN end ELSE p.stop_ts])])

InitClamp ==
    /\ variant \in {"ga", "la"}
    /\ phase = "clamp"
    /\ keepAll = FALSE /\ nsrc = 0 /\ nch = 0 /\ cur = NoCur
    /\ heap = <<>> /\ channels = <<>> /\ nameMap = <<>> /\ seen = {}
    /\ requireProgs = FALSE
    /\ cand = <<>> /\ res = NoRes /\ rec = NoRec /\ m3u = NoM3u /\ manual = NoManual
    /\ DispIdle /\ ProgIdle /\ RunIdle
    /\ TextIdle /\ BatchIdle /\ PoolIdle /\ MasterIdle /\ ProbeIdle
    /\ SaveIdle /\ FetchIdle /\ BuildIdle
    /\ \E t \in ClampNows, s1 \in LocalStarts, s2 \in LocalStarts, s3 \in LocalStarts,
          e1 \in LocalStops, e2 \in LocalStops :
          arg = [nowUTC |-> t, today |-> <<Row(s1, e1), Row(s2, e2)>>,
                 tomorrow |-> <<Row(s3, NoStop)>>]
    /\ ret = <<>>

\* main: the rows of today and tomorrow of a channel are turned into spans
\* and clamped
ClampChannel ==
    /\ phase = "clamp" /\ ret = <<>>
    /\ ret' = <<"clamped",
                clamp24h(materializeDay(arg.today, 0) \o materializeDay(arg.tomorrow, DayMinutes),
                         arg.nowUTC, CLAMP_HOURS)>>
    /\ UNCHANGED <<arg, exceptPure>>

NextClamp == ClampChannel

SpecClamp == InitClamp /\ [][NextClamp]_vars

\* the half of C34 about the end of the window
KeptBeforeWindowEnd ==
    (phase = "clamp" /\ ret # <<>>) =>
        \A i \in DOMAIN ret[2] :
            /\ ret[2][i].start_ts < arg.nowUTC + CLAMP_HOURS * 60
            /\ ret[2][i].stop_ts <= arg.nowUTC + CLAMP_HOURS * 60
            /\ ret[2][i].start_ts < ret[2][i].stop_ts

\* C34: every programme kept by the clamp starts before the end of the
\* window, stops not after it, has start < stop, and has not ended before now
C34_KeptInsideWindow ==
    /\ KeptBeforeWindowEnd
    /\ (phase = "clamp" /\ ret # <<>>) =>
          \A i \in DOMAIN ret[2] : ret[2][i].stop_ts >= arg.nowUTC

-----------------------------------------------------------------------------
(* Further properties of the programme batches                               *)

\* the successful writes that carried record r
WritesOf(r) == {i \in DOMAIN sink : sink[i].lo < r /\ r <= sink[i].lo + sink[i].n}

\* the store is configured, the parse is over, every write has returned and
\* none failed
AllWritten == sb /\ bpc = "ended" /\ flights = {} /\ Len(sink) = Len(handed)

\* C36: when the store is configured, the parse is over and every write has
\* returned without error, each programme record the parser retained was carried by exactly one write
C36_EachRecordInOneWrite ==
    AllWritten => \A r \in 1..recs : Cardinality(WritesOf(r)) = 1

-----------------------------------------------------------------------------
(* The probe pool under the scheduling of the event loop: a continuation
   that is ready to run is run, and every call of the work function settles
   (probeM3U8 and its callers catch their errors and time out). *)

SpecPoolFair == InitPool /\ [][NextPool]_vars /\ WF_vars(NextPool)

\* the invocations of the work function on item idx: one is started when a
\* worker takes idx, and it ends when its promise settles
CallsOn(idx) ==
    Cardinality({k \in DOMAIN doneOrder : doneOrder[k] = idx})
        + (IF idx \in inflight THEN 1 ELSE 0)

PoolResolved == ppc = "collected"

\* C35: with limit >= 1 and a work function whose calls all settle, the pool
\* eventually resolves, and when it has resolved every item has been passed
\* to the work function exactly once and results[i] is the outcome of
\* items[i], whatever the order of the completions.
C35_PoolResolvesInItemOrder ==
    /\ <>PoolResolved
    /\ [](PoolResolved =>
             \A idx \in DOMAIN poolItems :
                 /\ CallsOn(idx) = 1
                 /\ idx \notin inflight
                 /\ results[idx] = <<[u |-> poolItems[idx], ok |-> okOf[poolItems[idx]]]>>)

\* the pool resolved after a run with fewer workers than items in which the
\* completions came out of order and the outcomes differ
C35_Witness ==
    /\ PoolResolved
    /\ 1 < limit /\ limit < Len(poolItems)
    /\ doneOrder[1] # 1
    /\ \E k \in 1..(Len(doneOrder) - 1) : doneOrder[k] > doneOrder[k + 1]
    /\ \E i, j \in DOMAIN results : results[i][1].ok /\ ~results[j][1].ok

-----------------------------------------------------------------------------
(* The two element machines of parseOneEpg together, fed by an event stream
   (mx-scrape-and-match.mjs and part_004).  `last` is the position of the
   stream after its latest event: the element that is open (tv, channel,
   display-name, programme, title), whether the open tag of the programme
   gave a programme, and whether the programme has had its title.  The
   stream is well formed: every event is one the open element allows.
   Texts inside a display-name are short, a sequence of words.  part_004
   runs with store credentials; a closetag handler suspended at its
   `await flushBatch()` resumes when the insert has returned, at any later
   point between two events of the stream. *)

ParseCid == <<"xew", ".", "mx">>
ParseNames == { <<"Las", "Estrellas">> }
ParseStarts == { BadTs, Ts(250, -6) }
ParseStop == Ts(260, 0)
ParseTitles == { <<Run("a", 1)>> }

Pos(el, acc, titled) == [el |-> el, acc |-> acc, titled |-> titled]

parseFrame == <<variant, phase, keepAll, nsrc, seen, requireProgs, matchVars, dispNames, now,
                ingest, programs, dropped, runVars, field, nField, bpc, savePos, sb,
                poolVars, masterVars, probeVars, lateVars>>
chanState == <<nch, cur, heap, channels, nameMap, inDisp, dispChunks, dispLen, dispTruncated>>
progState == <<prog, inTag, textBuf, nTxt>>
accState == <<recs, arrays, batch, flights, nfid, sink, handed>>

InitParse ==
    /\ variant \in {"mx", "p4"}
    /\ phase = "stream"
    /\ keepAll = TRUE /\ nsrc = 1 /\ nch = 0 /\ cur = NoCur
    /\ heap = <<>> /\ channels = <<>> /\ nameMap = <<>> /\ seen = {}
    /\ requireProgs = FALSE
    /\ cand = <<>> /\ res = NoRes /\ rec = NoRec /\ m3u = NoM3u /\ manual = NoManual
    /\ DispIdle /\ RunIdle /\ TextIdle /\ PoolIdle /\ MasterIdle /\ ProbeIdle /\ LateIdle
    /\ now \in NowPool /\ ingest = TRUE
    /\ last = Pos("tv", FALSE, FALSE) /\ prog = <<>> /\ programs = <<>> /\ dropped = <<>>
    /\ recs = 0 /\ arrays = <<Arr(0, 0)>> /\ batch = 1 /\ flights = {} /\ nfid = 0
    /\ handed = <<>> /\ sink = <<>> /\ bpc = "parsing" /\ savePos = 0 /\ sb = TRUE

\* opentag channel
TagChannel ==
    /\ phase = "stream"
    /\ last.el = "tv"
    /\ nch < 1
    /\ last' = Pos("channel", FALSE, FALSE)
    /\ nch' = nch + 1
    /\ cur' = <<[id |-> ParseCid, namesRaw |-> <<>>]>>
    /\ inDisp' = IF variant = "p4" THEN FALSE ELSE inDisp
    /\ dispChunks' = IF variant = "p4" THEN <<>> ELSE dispChunks
    /\ dispLen' = IF variant = "p4" THEN 0 ELSE dispLen
    /\ UNCHANGED <<heap, channels, nameMap, dispTruncated, progState, accState, parseFrame>>

\* opentag display-name
TagDisplayName ==
    /\ phase = "stream"
    /\ last.el = "channel"
    /\ cur # NoCur => cur[1].namesRaw = <<>>
    /\ last' = Pos("display-name", FALSE, FALSE)
    /\ IF cur # NoCur
       THEN /\ inDisp' = TRUE
            /\ dispChunks' = <<>>
            /\ dispLen' = 0
            /\ dispTruncated' = FALSE
       ELSE UNCHANGED <<inDisp, dispChunks, dispLen, dispTruncated>>
    /\ UNCHANGED <<nch, cur, heap, channels, nameMap, progState, accState, parseFrame>>

\* text inside the display-name
NameText(t) ==
    /\ phase = "stream"
    /\ last.el = "display-name"
    /\ dispChunks = <<>>
    /\ last' = last
    /\ IF inDisp /\ cur # NoCur /\ ~dispTruncated
       THEN /\ dispChunks' = Append(dispChunks, t)
            /\ dispLen' = dispLen + Len(t)
       ELSE UNCHANGED <<dispChunks, dispLen>>
    /\ textBuf' = IF variant = "mx" /\ ~(inDisp /\ cur # NoCur) /\ prog # <<>> /\ inTag
                  THEN textBuf \o t ELSE textBuf
    /\ UNCHANGED <<nch, cur, heap, channels, nameMap, inDisp, dispTruncated, prog, inTag, nTxt,
                   accState, parseFrame>>

\* closetag display-name
EndDisplayName ==
    /\ phase = "stream"
    /\ last.el = "display-name"
    /\ last' = Pos("channel", FALSE, FALSE)
    /\ IF cur # NoCur
       THEN /\ cur' = IF Flatten(dispChunks) # <<>> /\ Len(cur[1].namesRaw) < MAX_NAMES_PER_CH
                      THEN <<[cur[1] EXCEPT !.namesRaw = Append(@, Flatten(dispChunks))]>>
                      ELSE cur
            /\ inDisp' = FALSE
            /\ dispChunks' = <<>>
            /\ dispLen' = 0
            /\ dispTruncated' = FALSE
       ELSE UNCHANGED <<cur, inDisp, dispChunks, dispLen, dispTruncated>>
    /\ UNCHANGED <<nch, heap, channels, nameMap, progState, accState, parseFrame>>

\* closetag channel
EndChannel ==
    /\ phase = "stream"
    /\ last.el = "channel"
    /\ last' = Pos("tv", FALSE, FALSE)
    /\ IF cur # NoCur
       THEN /\ LET r == closeChannel(variant, cur[1], keepAll, heap, channels, nameMap)
               IN  /\ heap' = r.heap
                   /\ channels' = r.channels
                   /\ nameMap' = r.nameMap
            /\ cur' = NoCur
            /\ inDisp' = IF variant = "p4" THEN FALSE ELSE inDisp
            /\ dispChunks' = IF variant = "p4" THEN <<>> ELSE dispChunks
            /\ dispLen' = IF variant = "p4" THEN 0 ELSE dispLen
       ELSE UNCHANGED <<cur, heap, channels, nameMap, inDisp, dispChunks, dispLen>>
    /\ UNCHANGED <<nch, dispTruncated, progState, accState, parseFrame>>

\* opentag programme with the attributes channel = ParseCid, start = a
TagProgramme(a) ==
    /\ phase = "stream"
    /\ last.el = "tv"
    /\ recs < MaxRecs
    /\ prog' = openProgramme(variant, ParseCid, a, ParseStop, ingest, now, prog)
    /\ last' = Pos("programme", prog' # <<>>, FALSE)
    /\ UNCHANGED <<inTag, textBuf, nTxt, chanState, accState, parseFrame>>

\* opentag title
TagTitle ==
    /\ phase = "stream"
    /\ last.el = "programme"
    /\ ~last.titled
    /\ last' = Pos("title", last.acc, TRUE)
    /\ nTxt' = 0
    /\ inTag' = IF prog # <<>> THEN TRUE ELSE inTag
    /\ textBuf' = IF prog # <<>> /\ variant = "mx" THEN <<>> ELSE textBuf
    /\ UNCHANGED <<prog, chanState, accState, parseFrame>>

\* text inside the title
TitleText(t) ==
    /\ phase = "stream"
    /\ last.el = "title"
    /\ nTxt < 1
    /\ last' = last
    /\ nTxt' = nTxt + 1
    /\ IF ~(inDisp /\ cur # NoCur) /\ prog # <<>> /\ inTag
       THEN /\ prog' = <<[prog[1] EXCEPT
                            !.title = textField(variant, t, prog[1].title, textBuf)[1]]>>
            /\ textBuf' = textField(variant, t, prog[1].title, textBuf)[2]
       ELSE UNCHANGED <<prog, textBuf>>
    /\ UNCHANGED <<inTag, chanState, accState, parseFrame>>

\* closetag title
EndTitle ==
    /\ phase = "stream"
    /\ last.el = "title"
    /\ last' = Pos("programme", last.acc, TRUE)
    /\ IF variant = "mx"
       THEN IF prog # <<>> /\ inTag
            THEN /\ prog' = <<[prog[1] EXCEPT
                                 !.title = closeField(variant, prog[1].title, textBuf)[1]]>>
                 /\ textBuf' = <<>>
                 /\ inTag' = FALSE
            ELSE UNCHANGED <<prog, textBuf, inTag>>
       ELSE /\ inTag' = FALSE
            /\ UNCHANGED <<prog, textBuf>>
    /\ UNCHANGED <<nTxt, chanState, accState, parseFrame>>

\* closetag programme.  part_004 pushes the programme and, when the batch is
\* full, calls flushBatch and waits: the reset of inProg, prog and the flags
\* is the rest of the handler, run when the insert has returned
EndProgramme ==
    /\ phase = "stream"
    /\ last.el = "programme"
    /\ last' = Pos("tv", FALSE, FALSE)
    /\ IF prog # <<>>
       THEN IF emits(variant, prog[1], channels, now)
            THEN LET a == afterPush(variant, arrays, batch, flights, nfid + 1, recs + 1, sb)
                 IN  /\ recs' = recs + 1
                     /\ arrays' = a.arrays
                     /\ batch' = a.batch
                     /\ flights' = a.flights
                     /\ nfid' = IF a.flights = flights THEN nfid ELSE nfid + 1
                     /\ prog' = IF a.flights = flights THEN <<>> ELSE prog
                     /\ inTag' = IF a.flights = flights THEN FALSE ELSE inTag
            ELSE /\ prog' = <<>>
                 /\ inTag' = FALSE
                 /\ UNCHANGED <<recs, arrays, batch, flights, nfid>>
       ELSE UNCHANGED <<prog, inTag, recs, arrays, batch, flights, nfid>>
    /\ UNCHANGED <<textBuf, nTxt, sink, handed, chanState, parseFrame>>

\* the insert of flight f has returned: flushBatch ends with batch = [], and
\* the closetag handler that awaited it goes on
ResumeEndProgramme(f, ok) ==
    /\ phase = "stream"
    /\ f \in flights
    /\ f.stage = "sent"
    /\ flights' = flights \ {f}
    /\ sink' = IF ok THEN Append(sink, Arr(f.lo, f.n)) ELSE sink
    /\ arrays' = Append(arrays, Arr(recs, 0))
    /\ batch' = Len(arrays) + 1
    /\ prog' = <<>>
    /\ inTag' = FALSE
    /\ UNCHANGED <<last, textBuf, nTxt, recs, nfid, handed, chanState, parseFrame>>

NextParse ==
    \/ TagChannel
    \/ TagDisplayName
    \/ \E t \in ParseNames : NameText(t)
    \/ EndDisplayName
    \/ EndChannel
    \/ \E a \in ParseStarts : TagProgramme(a)
    \/ TagTitle
    \/ \E t \in ParseTitles : TitleText(t)
    \/ EndTitle
    \/ EndProgramme
    \/ \E f \in flights : phase = "stream" /\ SendFlight(f)
    \/ \E f \in flights, ok \in BOOLEAN : ResumeEndProgramme(f, ok)

SpecParse == InitParse /\ [][NextParse]_vars

\* the states of the two machines, read off the handlers' variables
ChannelMachine ==
    CASE cur = NoCur -> "idle"
      [] inDisp -> "in-display-name"
      [] OTHER -> "in-channel"

ProgrammeMachine == IF prog = <<>> THEN "idle" ELSE "in-programme"

\* the states a well-formed stream puts them in
ChannelShould ==
    CASE last.el = "channel" -> "in-channel"
      [] last.el = "display-name" -> "in-display-name"
      [] OTHER -> "idle"

ProgrammeShould ==
    IF last.el \in {"programme", "title"} /\ last.acc THEN "in-programme" ELSE "idle"

ChannelMachineFollows ==
    /\ ChannelMachine = ChannelShould
    /\ last.el # "display-name" => (~inDisp /\ dispChunks = <<>> /\ dispLen = 0)

\* C33: over a well-formed event stream the channel machine is idle outside
\* a channel, in-channel inside one and in-display-name inside its
\* display-name, and the programme machine is in-programme exactly inside a
\* programme; text is accumulated into a display name only inside a
\* display-name, and after a channel close or a programme close the current
\* channel or programme and the accumulators are reset, so that a programme
\* just opened holds nothing of an earlier element.
C33_MachinesFollowStream ==
    /\ ChannelMachineFollows
    /\ ProgrammeMachine = ProgrammeShould
    /\ last.el # "title" => (~inTag /\ textBuf = <<>>)
    /\ (last.el = "programme" /\ last.acc /\ ~last.titled) =>
           (prog[1].channel_id = ParseCid /\ prog[1].title = <<>>)

-----------------------------------------------------------------------------
(* The rows of one write.  mx-scrape-and-match.mjs main builds one record
   for every stream left of every channel left and hands them all to
   saveStreams, which sends them in one upsert on stream_url: `persisted`
   holds the stream_url of each row of that upsert, in order. *)

\* C38: no single upsert holds two rows with the same conflict key: no two
\* stream records of one write have the same stream_url, even when two
\* channels share a stream url.
C38_DistinctKeysInOneWrite ==
    ppc = "collected" =>
        \A i, j \in DOMAIN persisted : persisted[i] = persisted[j] => i = j

=============================================================================
